---- MODULE Spec2Model ----
(***************************************************************************)
(* Live conversational session core of MicroPhenom-AI: the session         *)
(* controller (LiveInterviewSession), the peer-to-peer realtime adapter    *)
(* (connectAzureRealtimeSession, in its guarded and its unguarded          *)
(* revision) and the streaming-model callbacks, as one state machine.      *)
(*                                                                         *)
(* Handlers are written as operators from a world record to a world        *)
(* record so that a handler that calls other handlers (the grace timer     *)
(* calls onError and then closeSession, which calls onClose) is one        *)
(* atomic action, as it is one run-to-completion task of the event loop.   *)
(* The field exc carries a thrown exception up the call chain: statements  *)
(* after a throw are skipped, exactly as in the source.                    *)
(***************************************************************************)
EXTENDS Integers, Sequences, FiniteSets, TLC

(***************************************************************************)
(* Bounds of the model.                                                    *)
(***************************************************************************)
MaxAttempts == 2
MaxTicks == 2
MaxMsgs == 2
MaxEndClicks == 2
MaxFrames == 2
MaxTurnMsgs == 4
MaxChunks == 3
MaxClock == 3

Attempts == 1..MaxAttempts

(***************************************************************************)
(* Text: JavaScript string operations on TLA+ strings.                     *)
(***************************************************************************)
UpperChars == "ABCDEFGHIJKLMNOPQRSTUVWXYZ"
LowerChars == "abcdefghijklmnopqrstuvwxyz"

charAt(s, i) == SubSeq(s, i, i)

lowerChar(c) ==
  IF \E i \in 1..26 : charAt(UpperChars, i) = c
  THEN charAt(LowerChars, CHOOSE i \in 1..26 : charAt(UpperChars, i) = c)
  ELSE c

RECURSIVE toLowerCase(_)
toLowerCase(s) ==
  IF Len(s) = 0 THEN ""
  ELSE lowerChar(charAt(s, 1)) \o toLowerCase(SubSeq(s, 2, Len(s)))

includes(text, kw) ==
  \E i \in 1..(Len(text) - Len(kw) + 1) : SubSeq(text, i, i + Len(kw) - 1) = kw

isWhiteSpace(c) == c \in {" ", "\t", "\n"}

RECURSIVE trimStart(_)
trimStart(s) ==
  IF Len(s) > 0 /\ isWhiteSpace(charAt(s, 1))
  THEN trimStart(SubSeq(s, 2, Len(s)))
  ELSE s

RECURSIVE trimEnd(_)
trimEnd(s) ==
  IF Len(s) > 0 /\ isWhiteSpace(charAt(s, Len(s)))
  THEN trimEnd(SubSeq(s, 1, Len(s) - 1))
  ELSE s

trim(s) == trimEnd(trimStart(s))

RECURSIVE join(_, _)
join(lines, sep) ==
  IF Len(lines) = 0 THEN ""
  ELSE IF Len(lines) = 1 THEN lines[1]
  ELSE lines[1] \o sep \o join(Tail(lines), sep)

(***************************************************************************)
(* Audio codec.  A float sample is held as the integer n with              *)
(* s = n / (2 * Int16Scale), so that every 16-bit level and the midpoints  *)
(* between levels are representable and s * 32768 = n / 2 is exact.  A     *)
(* decoded sample is held as the 16-bit integer v, standing for v / 32768. *)
(***************************************************************************)
Int16Scale == 32768

\* storing the number n / 2 in an Int16Array element: truncate towards zero, wrap to 16 bits
toInt16(n) ==
  LET t == IF n >= 0 THEN n \div 2 ELSE -((-n) \div 2)
  IN ((t + Int16Scale) % (2 * Int16Scale)) - Int16Scale

\* new Uint8Array(int16.buffer): two bytes per element, low byte first
RECURSIVE int16Bytes(_)
int16Bytes(int16) ==
  IF int16 = <<>> THEN <<>>
  ELSE LET u == Head(int16) % (2 * Int16Scale)
       IN <<u % 256, u \div 256>> \o int16Bytes(Tail(int16))

Base64Chars == "ABCDEFGHIJKLMNOPQRSTUVWXYZabcdefghijklmnopqrstuvwxyz0123456789+/"

base64Char(n) == charAt(Base64Chars, n + 1)

base64Index(c) == (CHOOSE i \in 1..64 : charAt(Base64Chars, i) = c) - 1

RECURSIVE btoa(_)
btoa(bytes) ==
  IF Len(bytes) = 0 THEN ""
  ELSE IF Len(bytes) = 1
  THEN base64Char(bytes[1] \div 4) \o base64Char((bytes[1] % 4) * 16) \o "=="
  ELSE IF Len(bytes) = 2
  THEN base64Char(bytes[1] \div 4)
         \o base64Char((bytes[1] % 4) * 16 + bytes[2] \div 16)
         \o base64Char((bytes[2] % 16) * 4) \o "="
  ELSE base64Char(bytes[1] \div 4)
         \o base64Char((bytes[1] % 4) * 16 + bytes[2] \div 16)
         \o base64Char((bytes[2] % 16) * 4 + bytes[3] \div 64)
         \o base64Char(bytes[3] % 64)
         \o btoa(SubSeq(bytes, 4, Len(bytes)))

\* atob of well-formed base64 text
RECURSIVE atob(_)
atob(text) ==
  IF Len(text) < 4 THEN <<>>
  ELSE LET a == base64Index(charAt(text, 1))
           b == base64Index(charAt(text, 2))
           c3 == charAt(text, 3)
           c4 == charAt(text, 4)
           first == a * 4 + b \div 16
       IN IF c3 = "=" THEN <<first>>
          ELSE LET c == base64Index(c3)
                   second == (b % 16) * 16 + c \div 4
               IN IF c4 = "=" THEN <<first, second>>
                  ELSE <<first, second, (c % 4) * 64 + base64Index(c4)>>
                         \o atob(SubSeq(text, 5, Len(text)))

\* atob throws InvalidCharacterError: after dropping the padding of a text whose length
\* is a multiple of four, a character outside the alphabet or one character left over
atobThrows(text) ==
  LET n == Len(text)
      padding == IF n > 0 /\ n % 4 = 0 /\ charAt(text, n) = "="
                 THEN (IF charAt(text, n - 1) = "=" THEN 2 ELSE 1)
                 ELSE 0
      body == SubSeq(text, 1, n - padding)
  IN \/ Len(body) % 4 = 1
     \/ \E i \in 1..Len(body) : \A k \in 1..64 : charAt(Base64Chars, k) # charAt(body, i)

\* variant for C34: the product is clamped to the 16-bit range before it is stored
createBlobClamped(data) ==
  LET clamp(n) == IF n > 2 * Int16Scale - 2 THEN 2 * Int16Scale - 2
                  ELSE IF n < -2 * Int16Scale THEN -2 * Int16Scale ELSE n
  IN [data |-> btoa(int16Bytes([i \in 1..Len(data) |-> toInt16(clamp(data[i]))])),
      mimeType |-> "audio/pcm;rate=16000"]

createBlob(data) ==
  [data |-> btoa(int16Bytes([i \in 1..Len(data) |-> toInt16(data[i])])),
   mimeType |-> "audio/pcm;rate=16000"]

decode(base64) == atob(base64)

\* new Int16Array(data.buffer), for an even number of bytes
bytesInt16(data) ==
  [i \in 1..(Len(data) \div 2) |->
     LET u == data[2 * i - 1] + 256 * data[2 * i]
     IN IF u >= Int16Scale THEN u - 2 * Int16Scale ELSE u]

\* the channels of the AudioBuffer, each a sequence of 16-bit integers
decodeAudioData(data, numChannels) ==
  LET dataInt16 == bytesInt16(data)
      frameCount == Len(dataInt16) \div numChannels
  IN [channel \in 1..numChannels |->
        [i \in 1..frameCount |-> dataInt16[(i - 1) * numChannels + channel]]]

(***************************************************************************)
(* Raw error values, as JavaScript sees them: an Error or DOMException     *)
(* (name, message), a plain string, null, undefined, or an Event object    *)
(* without a message.                                                      *)
(***************************************************************************)
ErrorObj(name, message) == [tag |-> "Error", name |-> name, message |-> message]
StringErr(text) == [tag |-> "string", name |-> "", message |-> text]
NullErr == [tag |-> "null", name |-> "", message |-> ""]
UndefinedErr == [tag |-> "undefined", name |-> "", message |-> ""]
EventErr == [tag |-> "Event", name |-> "", message |-> ""]

\* String(error) for a value without a usable message.
toString(error) ==
  CASE error.tag = "Error" ->
         IF error.message = "" THEN error.name
         ELSE error.name \o ": " \o error.message
    [] error.tag = "Event" -> "[object Event]"
    [] OTHER -> error.message

\* `${(error as any)?.message || error || ''}`
errorText(error) ==
  CASE error.tag \in {"null", "undefined"} -> ""
    [] error.tag = "string" -> error.message
    [] error.tag = "Error" /\ error.message # "" -> error.message
    [] OTHER -> toString(error)

(***************************************************************************)
(* Diagnostics record and the error classifier.  classifyError reads the   *)
(* diagnostics of the render whose effect created the session (the closure *)
(* captured it), passed here as diag.                                      *)
(***************************************************************************)
InitialDiagnostics ==
  [key |-> "unknown", mic |-> "unknown", network |-> "unknown",
   session |-> "connecting", message |-> "Starting connection checks..."]

\* variant for C16: an error that matches no wording is blamed on the credential
classifyErrorDefaultsToKey(diag, error) ==
  LET text == toLowerCase(errorText(error)) IN
  IF includes(text, "microphone") \/ includes(text, "permission")
       \/ includes(text, "notallowederror") \/ includes(text, "notfounderror")
  THEN [key |-> diag.key, mic |-> "fail", network |-> diag.network, session |-> "error",
        message |-> "Microphone access blocked or unavailable."]
  ELSE [key |-> "fail", mic |-> diag.mic, network |-> diag.network, session |-> "error",
        message |-> "API key rejected or missing. Update key in settings."]

classifyError(diag, error) ==
  LET text == toLowerCase(errorText(error)) IN
  IF includes(text, "api key") \/ includes(text, "key") \/ includes(text, "auth")
       \/ includes(text, "permission denied")
  THEN [key |-> "fail", mic |-> diag.mic, network |-> diag.network, session |-> "error",
        message |-> "API key rejected or missing. Update key in settings."]
  ELSE IF includes(text, "microphone") \/ includes(text, "permission")
            \/ includes(text, "notallowederror") \/ includes(text, "notfounderror")
  THEN [key |-> diag.key, mic |-> "fail", network |-> diag.network, session |-> "error",
        message |-> "Microphone access blocked or unavailable."]
  ELSE [key |-> diag.key, mic |-> diag.mic, network |-> "fail", session |-> "error",
        message |-> "Network/session link failed. Check connection and retry."]

\* The category the peer-to-peer onError callback marks as fail.
azureErrorSlot(message) ==
  LET lowered == toLowerCase(message) IN
  IF includes(lowered, "configured") \/ includes(lowered, "token") \/ includes(lowered, "key")
  THEN "key"
  ELSE IF includes(lowered, "microphone") \/ includes(lowered, "permission")
            \/ includes(lowered, "notallowederror")
  THEN "mic"
  ELSE "network"

(***************************************************************************)
(* Session configuration (props.settings).  An absent voiceProvider is     *)
(* the empty string and selects the streaming-model backend.               *)
(***************************************************************************)
AzureSettings == [voiceProvider |-> "AZURE_OPENAI_REALTIME", apiKey |-> ""]
GeminiSettings(k) == [voiceProvider |-> "GEMINI", apiKey |-> k]
DefaultSettings(k) == [voiceProvider |-> "", apiKey |-> k]
NoSettings == [voiceProvider |-> "none", apiKey |-> ""]

SettingsSet ==
  {AzureSettings, GeminiSettings("valid-key"), GeminiSettings(""), GeminiSettings("  "),
   DefaultSettings("valid-key")}

provider(settings) ==
  IF settings.voiceProvider = "" THEN "GEMINI" ELSE settings.voiceProvider

(***************************************************************************)
(* State.                                                                  *)
(*  React state of the component: status, duration, isMuted, diagnostics.  *)
(*  refs: the useRef cells.  Timer ids and audio contexts are named by the *)
(*  session attempt (effect run) that created them, 0 is null.             *)
(*  run[a]: the closure of effect run a: its settings, its mounted flag,   *)
(*  the isMuted and diagnostics of the render it closed over, where its    *)
(*  startSession stands, and the window timers it created.                 *)
(*  p2p[a]: the locals of connectAzureRealtimeSession for attempt a and    *)
(*  the browser objects it owns.  gem[a]: the audio graph, microphone and  *)
(*  streaming session of attempt a.                                        *)
(*  impl: which revision of the peer-to-peer adapter is linked.            *)
(*  obs: what the outside observed: the onComplete calls, the End Session  *)
(*  clicks, the inbound messages delivered so far (wire), uncaught throws. *)
(*  The Calls counters, lastError, recovered, graceFired, failedFrom (the   *)
(*  state the connection left when it failed) and graceTimers (the number  *)
(*  of window timeouts armed by the adapter and neither run nor cleared)   *)
(*  of p2p[a] are observations of the same kind: no handler reads them.    *)
(***************************************************************************)
VARIABLES status, duration, isMuted, diagnostics, refs, componentMounted, cur,
          run, p2p, gem, impl, obs

vars == <<status, duration, isMuted, diagnostics, refs, componentMounted, cur,
          run, p2p, gem, impl, obs>>

NullSession == [kind |-> "null", of |-> 0]

InitialRefs ==
  [transcriptRef |-> <<>>, durationRef |-> 0, timerRef |-> 0,
   inputContextRef |-> 0, outputContextRef |-> 0, nextStartTimeRef |-> 0,
   sessionRef |-> NullSession, connectTimeoutRef |-> 0, azureAiBufferRef |-> ""]

NoRun ==
  [settings |-> NoSettings, mounted |-> FALSE, pc |-> "none", isMuted |-> FALSE,
   diagnostics |-> InitialDiagnostics, connectTimeout |-> "none",
   durationInterval |-> "none", volumeInterval |-> "none"]

NoP2P ==
  [pc |-> "none", track |-> "none", connection |-> "none", dataChannel |-> "none",
   isClosed |-> FALSE, disconnectTimer |-> FALSE, dcErrored |-> FALSE,
   closeCalls |-> 0, closeThrows |-> 0, onCloseCalls |-> 0,
   onErrorCalls |-> 0, lastError |-> "", recovered |-> FALSE, graceFired |-> FALSE,
   releases |-> 0, failedFrom |-> "none", graceTimers |-> 0]

NoGem ==
  [inputContext |-> "none", outputContext |-> "none", inputCloses |-> 0, outputCloses |-> 0,
   track |-> "none", promise |-> "none", socket |-> "none", capturing |-> FALSE,
   closePending |-> 0, closeCalls |-> 0, queued |-> <<>>, sent |-> <<>>, captured |-> 0,
   currentTime |-> 0, outputSuspended |-> FALSE, inflight |-> <<>>, schedule |-> <<>>]

\* classified holds the last classification made: its input, the diagnostics it
\* started from and the diagnostics it produced
InitialObs ==
  [completions |-> <<>>, endClicks |-> 0, wire |-> <<>>, uncaught |-> FALSE,
   classified |-> <<>>]

World ==
  [status |-> status, duration |-> duration, isMuted |-> isMuted,
   diagnostics |-> diagnostics, refs |-> refs, componentMounted |-> componentMounted,
   cur |-> cur, run |-> run, p2p |-> p2p, gem |-> gem, impl |-> impl, obs |-> obs,
   exc |-> "none"]

\* An event-loop task ends: an exception nobody caught is reported and dropped.
Commit(w) ==
  /\ status' = w.status
  /\ duration' = w.duration
  /\ isMuted' = w.isMuted
  /\ diagnostics' = w.diagnostics
  /\ refs' = w.refs
  /\ componentMounted' = w.componentMounted
  /\ cur' = w.cur
  /\ run' = w.run
  /\ p2p' = w.p2p
  /\ gem' = w.gem
  /\ impl' = w.impl
  /\ obs' = IF w.exc = "none" THEN w.obs ELSE [w.obs EXCEPT !.uncaught = TRUE]

throw(w, e) == [w EXCEPT !.exc = e]

(***************************************************************************)
(* React state setters: an update of an unmounted component is dropped.    *)
(***************************************************************************)
setStatus(w, v) == IF w.componentMounted THEN [w EXCEPT !.status = v] ELSE w

setDiagnostics(w, d) == IF w.componentMounted THEN [w EXCEPT !.diagnostics = d] ELSE w

setDuration(w) ==
  IF w.componentMounted
  THEN [w EXCEPT !.duration = @ + 1, !.refs.durationRef = w.duration + 1]
  ELSE w

\* bookkeeping of a classification, for the observer only
classified(w, by, error, before, after) ==
  [w EXCEPT !.obs.classified =
     <<[by |-> by, error |-> error, before |-> before, after |-> after]>>]

\* window.clearTimeout(connectTimeoutRef.current); connectTimeoutRef.current = null
clearConnectTimeout(w) ==
  LET id == w.refs.connectTimeoutRef IN
  IF id # 0
  THEN [w EXCEPT !.run[id].connectTimeout = IF @ = "pending" THEN "cleared" ELSE @,
                 !.refs.connectTimeoutRef = 0]
  ELSE w

(***************************************************************************)
(* Controller callbacks handed to the peer-to-peer adapter by attempt a.   *)
(* setIsActive is declared nowhere in the component: calling it throws a   *)
(* ReferenceError, so onOpen stops after setStatus and onClose stops at    *)
(* its first statement.                                                    *)
(***************************************************************************)
setIsActive(w) == throw(w, "ReferenceError")

onOpen(w, a) ==
  LET w1 == clearConnectTimeout(w)
      w2 == IF w1.run[a].mounted THEN setStatus(w1, "connected") ELSE w1
      w3 == setIsActive(w2)
  IN IF w3.exc # "none" THEN w3
     ELSE setDiagnostics(w3, [key |-> "ok", mic |-> "ok", network |-> "ok",
                              session |-> "live",
                              message |-> "Azure Realtime session connected."])

onClose(w, a) ==
  LET w0 == [w EXCEPT !.p2p[a].onCloseCalls = @ + 1]
      w1 == setIsActive(w0)
  IN IF w1.exc # "none" THEN w1
     ELSE IF w1.diagnostics.session = "error" THEN w1
     ELSE setDiagnostics(w1, [w1.diagnostics EXCEPT !.session = "closed",
                                                    !.message = "Session closed."])

onError(w, a, message) ==
  LET w0 == [w EXCEPT !.p2p[a].onErrorCalls = @ + 1, !.p2p[a].lastError = message]
      w1 == IF w0.run[a].mounted THEN setStatus(w0, "error") ELSE w0
      slot == azureErrorSlot(message)
      next == [w1.diagnostics EXCEPT ![slot] = "fail", !.session = "error",
                                     !.message = message]
  IN setDiagnostics(classified(w1, "onError", StringErr(message), w1.diagnostics, next),
                    next)

onAiTranscriptDelta(w, delta) ==
  [w EXCEPT !.refs.azureAiBufferRef = @ \o delta]

\* variant for C5: the turn buffer survives the end of the turn
onAiTurnDoneKeepsBuffer(w) ==
  LET text == trim(w.refs.azureAiBufferRef)
  IN IF Len(text) > 0
     THEN [w EXCEPT !.refs.transcriptRef = Append(@, "AI: " \o text)]
     ELSE w

onAiTurnDone(w) ==
  LET text == trim(w.refs.azureAiBufferRef)
      w1 == IF Len(text) > 0
            THEN [w EXCEPT !.refs.transcriptRef = Append(@, "AI: " \o text)]
            ELSE w
  IN [w1 EXCEPT !.refs.azureAiBufferRef = ""]

\* variant for C35: a local-party line starts a new remote turn
onUserTurnClearsBuffer(w, text) ==
  IF trim(text) # ""
  THEN [w EXCEPT !.refs.transcriptRef = Append(@, "Interviewee: " \o trim(text)),
                 !.refs.azureAiBufferRef = ""]
  ELSE w

onUserTurn(w, text) ==
  IF trim(text) # ""
  THEN [w EXCEPT !.refs.transcriptRef = Append(@, "Interviewee: " \o trim(text))]
  ELSE w

(***************************************************************************)
(* Peer-to-peer adapter: teardown.                                         *)
(***************************************************************************)
\* dataChannel.close(), track.stop() on every track, connection.close()
releaseP2P(w, a) ==
  [w EXCEPT !.p2p[a].dataChannel = IF @ \in {"connecting", "open"} THEN "closing" ELSE @,
            !.p2p[a].track = "stopped",
            !.p2p[a].connection = "closed",
            !.p2p[a].releases = @ + 1]

\* if (disconnectTimer) { window.clearTimeout(disconnectTimer); disconnectTimer = null; }
clearDisconnectTimer(w, a) ==
  IF w.p2p[a].disconnectTimer
  THEN [w EXCEPT !.p2p[a].disconnectTimer = FALSE, !.p2p[a].graceTimers = @ - 1]
  ELSE w

\* disconnectTimer = window.setTimeout(..., 5000)
setDisconnectTimer(w, a) ==
  [w EXCEPT !.p2p[a].disconnectTimer = TRUE, !.p2p[a].graceTimers = @ + 1]

\* variant for C30: teardown leaves a pending grace timer armed
closeSessionKeepsTimer(w, a) ==
  IF w.p2p[a].isClosed THEN w
  ELSE onClose(releaseP2P([w EXCEPT !.p2p[a].isClosed = TRUE], a), a)

\* variant for C19: teardown without the isClosed guard
closeSessionWithoutGuard(w, a) ==
  onClose(releaseP2P(clearDisconnectTimer([w EXCEPT !.p2p[a].isClosed = TRUE], a), a), a)

closeSession(w, a) ==
  IF w.p2p[a].isClosed THEN w
  ELSE onClose(releaseP2P(clearDisconnectTimer([w EXCEPT !.p2p[a].isClosed = TRUE], a), a), a)

\* close() of the handle returned by the unguarded revision of the adapter
unguardedClose(w, a) == onClose(releaseP2P(w, a), a)

\* handle.close() as the controller calls it
handleClose(w, a) ==
  LET w0 == [w EXCEPT !.p2p[a].closeCalls = @ + 1]
      w1 == IF w0.impl = "guarded" THEN closeSession(w0, a) ELSE unguardedClose(w0, a)
  IN IF w1.exc # "none" THEN [w1 EXCEPT !.p2p[a].closeThrows = @ + 1] ELSE w1

(***************************************************************************)
(* startSession: the catch block, and the synchronous prefix run by the    *)
(* effect up to the first await (the token request of the peer-to-peer     *)
(* adapter, or getUserMedia on the streaming path).                        *)
(***************************************************************************)
catchStartSession(w, a, e) ==
  LET w1 == setStatus(w, "error")
      next == classifyError(w1.run[a].diagnostics, e)
      w2 == setDiagnostics(classified(w1, "classifyError", e, w1.run[a].diagnostics, next),
                           next)
  IN [w2 EXCEPT !.run[a].pc = "failed"]

startAzure(w, a) ==
  LET w1 == setDiagnostics(w, [key |-> "checking", mic |-> "checking",
                               network |-> "checking", session |-> "connecting",
                               message |-> "Requesting Azure Realtime session..."])
  IN [w1 EXCEPT !.run[a].connectTimeout = "pending",
                !.refs.connectTimeoutRef = a,
                !.run[a].pc = "connecting",
                !.p2p[a].pc = "token"]

\* variant for C6: the credential is not looked at before the audio setup
startGeminiWithoutKeyCheck(w, a) ==
  LET w1 == setDiagnostics(w, [key |-> "ok", mic |-> "checking",
                               network |-> "checking", session |-> "connecting",
                               message |-> "API key found. Requesting microphone access..."])
  IN [w1 EXCEPT !.gem[a].inputContext = "running",
                !.gem[a].outputContext = "running",
                !.refs.inputContextRef = a,
                !.refs.outputContextRef = a,
                !.run[a].pc = "mic"]

startGemini(w, a) ==
  IF trim(w.run[a].settings.apiKey) = ""
  THEN catchStartSession(w, a,
         ErrorObj("Error", "Missing Gemini API key. Set it in Settings."))
  ELSE LET w1 == setDiagnostics(w, [key |-> "ok", mic |-> "checking",
                                    network |-> "checking", session |-> "connecting",
                                    message |-> "API key found. Requesting microphone access..."])
       IN [w1 EXCEPT !.gem[a].inputContext = "running",
                     !.gem[a].outputContext = "running",
                     !.refs.inputContextRef = a,
                     !.refs.outputContextRef = a,
                     !.run[a].pc = "mic"]

\* the effect body: mounted = true; startSession()
startSession(w, a, settings) ==
  LET w0 == [w EXCEPT !.cur = a,
                      !.run[a] = [NoRun EXCEPT !.settings = settings, !.mounted = TRUE,
                                               !.isMuted = w.isMuted,
                                               !.diagnostics = w.diagnostics,
                                               !.pc = "start"]]
  IN IF provider(settings) = "AZURE_OPENAI_REALTIME"
     THEN startAzure(w0, a)
     ELSE startGemini(w0, a)

(***************************************************************************)
(* Streaming session object (the SDK's Session, reached only through       *)
(* sessionPromise.then): reactions registered while the promise is pending *)
(* run in registration order when it resolves.                             *)
(***************************************************************************)
sessionClose(w, a) ==
  [w EXCEPT !.gem[a].closeCalls = @ + 1,
            !.gem[a].socket = IF @ = "open" THEN "closing" ELSE @]

\* a frame handed to the session after its socket left the open state is not transmitted
sendRealtimeInput(w, a, frame) ==
  [w EXCEPT !.gem[a].sent = Append(@, [frame EXCEPT !.onOpenSocket = (w.gem[a].socket = "open")])]

runReaction(w, a, r) ==
  IF r.op = "close" THEN sessionClose(w, a) ELSE sendRealtimeInput(w, a, r.frame)

\* variant for C24: a reaction registered on the pending promise goes to the front
thenSessionNewestFirst(w, a, r) ==
  CASE w.gem[a].promise = "resolved" -> runReaction(w, a, r)
    [] w.gem[a].promise = "pending" -> [w EXCEPT !.gem[a].queued = <<r>> \o @]
    [] OTHER -> w

\* sessionPromise.then(reaction)
thenSession(w, a, r) ==
  CASE w.gem[a].promise = "resolved" -> runReaction(w, a, r)
    [] w.gem[a].promise = "pending" -> [w EXCEPT !.gem[a].queued = Append(@, r)]
    [] OTHER -> w

RECURSIVE runReactions(_, _, _)
runReactions(w, a, rs) ==
  IF rs = <<>> THEN w
  ELSE runReactions(runReaction(w, a, Head(rs)), a, Tail(rs))

\* if (sessionRef.current) { then-able: .then(s => s.close()); else .close() }
closeStoredSession(w) ==
  LET ref == w.refs.sessionRef IN
  CASE ref.kind = "promise" -> thenSession(w, ref.of, [op |-> "close"])
    [] ref.kind = "handle" -> handleClose(w, ref.of)
    [] OTHER -> w

\* AudioContext.close() through a ref: closing a closed context rejects, it does not throw
closeContext(w, id, which) ==
  IF id = 0 THEN w
  ELSE IF which = "input"
  THEN [w EXCEPT !.gem[id].inputContext = "closed", !.gem[id].inputCloses = @ + 1]
  ELSE [w EXCEPT !.gem[id].outputContext = "closed", !.gem[id].outputCloses = @ + 1]

\* clearInterval(timerRef.current)
clearDurationTimer(w) ==
  LET id == w.refs.timerRef IN
  IF id # 0 THEN [w EXCEPT !.run[id].durationInterval = "cleared"] ELSE w

\* the function returned by the effect of attempt a
cleanup(w, a) ==
  LET w1 == clearConnectTimeout([w EXCEPT !.run[a].mounted = FALSE])
      w2 == clearDurationTimer(w1)
      w3 == closeContext(w2, w2.refs.inputContextRef, "input")
      w4 == closeContext(w3, w3.refs.outputContextRef, "output")
  IN closeStoredSession(w4)

handleEndSession(w) ==
  LET w1 == closeStoredSession(w)
      simulatedTranscript == join(w1.refs.transcriptRef, "\n")
      finalTranscript == IF Len(simulatedTranscript) > 0 THEN simulatedTranscript
                         ELSE "Conversational Session (Audio)"
  IN IF w1.exc # "none" THEN w1
     ELSE [w1 EXCEPT !.obs.completions =
             Append(@, [transcript |-> finalTranscript, duration |-> w1.refs.durationRef])]

(***************************************************************************)
(* Initial state: the component rendered once, before its effect ran.      *)
(***************************************************************************)
Init ==
  /\ status = "connecting"
  /\ duration = 0
  /\ isMuted = FALSE
  /\ diagnostics = InitialDiagnostics
  /\ refs = InitialRefs
  /\ componentMounted = TRUE
  /\ cur = 0
  /\ run = [a \in Attempts |-> NoRun]
  /\ p2p = [a \in Attempts |-> NoP2P]
  /\ gem = [a \in Attempts |-> NoGem]
  /\ impl \in {"guarded", "unguarded"}
  /\ obs = InitialObs

(***************************************************************************)
(* User and parent actions.                                                *)
(***************************************************************************)
\* first run of the effect
Mount(configurations) ==
  /\ componentMounted /\ cur = 0
  /\ \E s \in configurations : Commit(startSession(World, 1, s))

\* the parent removes the component: React runs the effect's cleanup
Unmount ==
  /\ componentMounted /\ cur > 0
  /\ Commit(cleanup([World EXCEPT !.componentMounted = FALSE], cur))

\* the parent passes a new settings object: React runs the cleanup of the previous
\* effect, then the effect again.  An exception thrown by the cleanup is caught by
\* React, which still runs the new effect and then, no error boundary being
\* present, removes the whole tree.
ConfigChange(configurations) ==
  /\ componentMounted /\ cur > 0 /\ cur < MaxAttempts
  /\ \E s \in configurations :
       LET w1 == cleanup(World, cur)
           thrown == w1.exc # "none"
           w2 == startSession([w1 EXCEPT !.exc = "none",
                                         !.obs.uncaught = @ \/ thrown], cur + 1, s)
       IN Commit(IF thrown
                 THEN cleanup([w2 EXCEPT !.componentMounted = FALSE], cur + 1)
                 ELSE w2)

\* the End Session button
EndSession ==
  /\ componentMounted /\ cur > 0
  /\ obs.endClicks < MaxEndClicks
  /\ Commit(handleEndSession([World EXCEPT !.obs.endClicks = @ + 1]))

\* the mute button: setIsMuted(!isMuted)
ToggleMute ==
  /\ componentMounted /\ cur > 0
  /\ Commit([World EXCEPT !.isMuted = ~@])

(***************************************************************************)
(* Window timers.                                                          *)
(***************************************************************************)
connectTimeoutCallback(w, a) ==
  LET azure == provider(w.run[a].settings) = "AZURE_OPENAI_REALTIME"
      w1 == IF azure /\ ~w.run[a].mounted THEN w ELSE setStatus(w, "error")
  IN setDiagnostics(w1, [w1.diagnostics EXCEPT
       !.network = "fail", !.session = "error",
       !.message = IF azure THEN "Azure Realtime connection timed out."
                   ELSE "Connection timed out. Verify network and API key."])

ConnectTimeoutFires(a) ==
  /\ run[a].connectTimeout = "pending"
  /\ Commit(connectTimeoutCallback([World EXCEPT !.run[a].connectTimeout = "fired"], a))

DurationTick(a) ==
  /\ run[a].durationInterval = "active"
  /\ componentMounted
  /\ duration < MaxTicks
  /\ Commit(setDuration(World))

(***************************************************************************)
(* Peer-to-peer adapter: connectAzureRealtimeSession, one action per       *)
(* await.  A rejected step rejects the adapter's promise, which the        *)
(* controller's startSession catches in the same microtask chain.          *)
(***************************************************************************)
BrokerErrors ==
  {"Missing AZURE_OPENAI_ENDPOINT, AZURE_OPENAI_API_KEY, or AZURE_OPENAI_REALTIME_DEPLOYMENT",
   "Azure realtime token request failed",
   "Realtime token missing from Azure response"}

FetchFailure == ErrorObj("TypeError", "Failed to fetch")

MicrophoneErrors ==
  {ErrorObj("NotAllowedError", "Permission denied"),
   ErrorObj("NotFoundError", "Requested device not found")}

NegotiationFailure == ErrorObj("OperationError", "Failed to execute session negotiation step")

adapterRejects(w, a, e) == catchStartSession([w EXCEPT !.p2p[a].pc = "failed"], a, e)

\* the broker answered with a token and a negotiation URL: getUserMedia is requested
TokenGranted(a) ==
  /\ p2p[a].pc = "token"
  /\ Commit([World EXCEPT !.p2p[a].pc = "mic"])

\* the broker refused (with or without an error text) or could not be reached
TokenRefusedWith(a, errors) ==
  /\ p2p[a].pc = "token"
  /\ \E e \in errors : Commit(adapterRejects(World, a, e))

TokenRefused(a) ==
  TokenRefusedWith(a, {ErrorObj("Error", m) : m \in BrokerErrors}
                        \cup {ErrorObj("Error", "Failed to initialize Azure Realtime session."),
                              FetchFailure})

\* microphone granted: tracks added, handlers installed, data channel created,
\* createOffer requested
MicGranted(a) ==
  /\ p2p[a].pc = "mic"
  /\ Commit([World EXCEPT !.p2p[a].pc = "offer",
                          !.p2p[a].track = "live",
                          !.p2p[a].connection = "new",
                          !.p2p[a].dataChannel = "connecting"])

MicRefused(a) ==
  /\ p2p[a].pc = "mic"
  /\ \E e \in MicrophoneErrors : Commit(adapterRejects(World, a, e))

\* variant for C33: the offer is posted without waiting for setLocalDescription
NegotiationStepSkipsLocal(a) ==
  /\ p2p[a].pc \in {"offer", "local", "sdp"}
  /\ Commit([World EXCEPT !.p2p[a].pc =
       CASE @ = "offer" -> "sdp" [] @ = "local" -> "sdp" [] OTHER -> "answer"])

\* createOffer, setLocalDescription, the negotiation request, setRemoteDescription
NegotiationStep(a) ==
  /\ p2p[a].pc \in {"offer", "local", "sdp"}
  /\ Commit([World EXCEPT !.p2p[a].pc =
       CASE @ = "offer" -> "local" [] @ = "local" -> "sdp" [] OTHER -> "answer"])

NegotiationFails(a) ==
  /\ p2p[a].pc \in {"offer", "local", "sdp", "answer"}
  /\ \E e \in {NegotiationFailure} \cup
              (IF p2p[a].pc = "sdp"
               THEN {ErrorObj("Error", "Azure Realtime SDP negotiation failed."), FetchFailure}
               ELSE {}) :
       Commit(adapterRejects(World, a, e))

\* the answer is applied and the handle returned: startSession resumes, stores the
\* handle and starts the duration timer
HandleReturned(a) ==
  /\ p2p[a].pc = "answer"
  /\ Commit([World EXCEPT !.p2p[a].pc = "returned",
                          !.refs.sessionRef = [kind |-> "handle", of |-> a],
                          !.run[a].durationInterval = "active",
                          !.refs.timerRef = a,
                          !.run[a].pc = "done"])

(***************************************************************************)
(* Peer-to-peer adapter: events of the peer connection and data channel.   *)
(***************************************************************************)
ConnectionTransitions ==
  {<<"new", "connecting">>, <<"connecting", "connected">>, <<"connecting", "failed">>,
   <<"connected", "disconnected">>, <<"disconnected", "connected">>,
   <<"disconnected", "failed">>, <<"connected", "failed">>,
   <<"connecting", "closed">>, <<"connected", "closed">>, <<"disconnected", "closed">>}

\* variant for C7: a recovery leaves the grace timer running
onconnectionstatechangeKeepsTimer(w, a) ==
  LET w1 == IF w.p2p[a].connection = "connected" /\ w.p2p[a].disconnectTimer
            THEN [w EXCEPT !.p2p[a].recovered = TRUE]
            ELSE w
      w2 == IF w1.p2p[a].connection = "failed"
            THEN closeSession(onError(w1, a, "Realtime peer connection failed."), a)
            ELSE w1
      w3 == IF w2.exc = "none" /\ w2.p2p[a].connection = "disconnected"
               /\ ~w2.p2p[a].disconnectTimer
            THEN setDisconnectTimer(w2, a) ELSE w2
  IN IF w3.exc = "none" /\ w3.p2p[a].connection = "closed"
     THEN closeSession(w3, a) ELSE w3

\* variant for C40: every entry into disconnected arms a timer, whether or not one is held
onconnectionstatechangeRearms(w, a) ==
  LET w1 == IF w.p2p[a].connection = "connected" /\ w.p2p[a].disconnectTimer
            THEN [clearDisconnectTimer(w, a) EXCEPT !.p2p[a].recovered = TRUE]
            ELSE w
      w2 == IF w1.p2p[a].connection = "failed"
            THEN closeSession(onError(w1, a, "Realtime peer connection failed."), a)
            ELSE w1
      w3 == IF w2.exc = "none" /\ w2.p2p[a].connection = "disconnected"
            THEN setDisconnectTimer(w2, a) ELSE w2
  IN IF w3.exc = "none" /\ w3.p2p[a].connection = "closed"
     THEN closeSession(w3, a) ELSE w3

\* connection.onconnectionstatechange (guarded revision only)
onconnectionstatechange(w, a) ==
  LET w1 == IF w.p2p[a].connection = "connected" /\ w.p2p[a].disconnectTimer
            THEN [clearDisconnectTimer(w, a) EXCEPT !.p2p[a].recovered = TRUE]
            ELSE w
      w2 == IF w1.p2p[a].connection = "failed"
            THEN closeSession(onError(w1, a, "Realtime peer connection failed."), a)
            ELSE w1
      w3 == IF w2.exc = "none" /\ w2.p2p[a].connection = "disconnected"
               /\ ~w2.p2p[a].disconnectTimer
            THEN setDisconnectTimer(w2, a) ELSE w2
  IN IF w3.exc = "none" /\ w3.p2p[a].connection = "closed"
     THEN closeSession(w3, a) ELSE w3

ConnectionStateChangeWith(a, transitions) ==
  /\ p2p[a].pc = "returned"
  /\ \E t \in transitions :
       /\ p2p[a].connection = t[1]
       /\ LET w == [World EXCEPT !.p2p[a].connection = t[2],
                                 !.p2p[a].failedFrom = IF t[2] = "failed" THEN t[1] ELSE @]
          IN Commit(IF impl = "guarded" THEN onconnectionstatechange(w, a) ELSE w)

ConnectionStateChange(a) == ConnectionStateChangeWith(a, ConnectionTransitions)

\* variant for C8: the expired grace timer reports the error and leaves the session open
disconnectTimerCallbackErrorOnly(w, a) ==
  LET w1 == [w EXCEPT !.p2p[a].disconnectTimer = FALSE, !.p2p[a].graceFired = TRUE,
                      !.p2p[a].graceTimers = @ - 1]
  IN IF w1.p2p[a].connection = "disconnected"
     THEN onError(w1, a, "Realtime peer connection disconnected.")
     ELSE w1

\* the grace timer set on entering disconnected
disconnectTimerCallback(w, a) ==
  LET w1 == [w EXCEPT !.p2p[a].disconnectTimer = FALSE, !.p2p[a].graceFired = TRUE,
                      !.p2p[a].graceTimers = @ - 1]
  IN IF w1.p2p[a].connection = "disconnected"
     THEN closeSession(onError(w1, a, "Realtime peer connection disconnected."), a)
     ELSE w1

DisconnectTimerFires(a) ==
  /\ p2p[a].graceTimers > 0
  /\ Commit(disconnectTimerCallback(World, a))

\* dataChannel.onopen: callbacks.onOpen(), then the response.create request
DataChannelOpen(a) ==
  /\ p2p[a].dataChannel = "connecting"
  /\ p2p[a].connection = "connected"
  /\ Commit(onOpen([World EXCEPT !.p2p[a].dataChannel = "open"], a))

\* dataChannel.onerror
DataChannelError(a) ==
  /\ p2p[a].dataChannel \in {"connecting", "open"}
  /\ p2p[a].pc = "returned"
  /\ ~p2p[a].dcErrored
  /\ Commit(onError([World EXCEPT !.p2p[a].dcErrored = TRUE], a,
                    "Realtime data channel error."))

\* dataChannel.onclose: closed by the remote end, or the close event that follows
\* a local dataChannel.close() / connection.close()
DataChannelClose(a) ==
  /\ p2p[a].dataChannel \in {"open", "closing"}
  /\ LET w == [World EXCEPT !.p2p[a].dataChannel = "closed"]
     IN Commit(IF impl = "guarded" THEN closeSession(w, a) ELSE onClose(w, a))

(***************************************************************************)
(* Side-channel messages.  An optional string field is a sequence of       *)
(* length 0 (absent or not a string) or 1.                                 *)
(***************************************************************************)
Json(type, transcript, delta, text, errorMessage) ==
  [wellFormed |-> TRUE, type |-> type, transcript |-> transcript, delta |-> delta,
   text |-> text, errorMessage |-> errorMessage]

Malformed == [Json("", <<>>, <<>>, <<>>, <<>>) EXCEPT !.wellFormed = FALSE]

DeltaMsg(d) == Json("response.output_audio_transcript.delta", <<>>, <<d>>, <<>>, <<>>)
DoneMsg == Json("response.output_audio_transcript.done", <<>>, <<>>, <<>>, <<>>)
UserTurnMsg(t) ==
  Json("conversation.item.input_audio_transcription.completed", <<t>>, <<>>, <<>>, <<>>)
ErrorMsg(m) == Json("error", <<>>, <<>>, <<>>, m)
OtherMsg == Json("session.created", <<>>, <<>>, <<>>, <<>>)

readEventText(event) ==
  IF Len(event.transcript) = 1 THEN event.transcript[1]
  ELSE IF Len(event.delta) = 1 THEN event.delta[1]
  ELSE IF Len(event.text) = 1 THEN event.text[1]
  ELSE ""

\* variant for C31: a message that cannot be parsed ends the session
onmessageP2PFatalParse(w, a, message) ==
  IF ~message.wellFormed
  THEN closeSession(onError(w, a, "Failed to parse realtime event payload."), a)
  ELSE CASE message.type = "response.output_audio_transcript.delta" ->
              IF readEventText(message) # ""
              THEN onAiTranscriptDelta(w, readEventText(message)) ELSE w
         [] message.type = "response.output_audio_transcript.done" -> onAiTurnDone(w)
         [] message.type = "conversation.item.input_audio_transcription.completed" ->
              IF readEventText(message) # ""
              THEN onUserTurn(w, readEventText(message)) ELSE w
         [] OTHER -> w

\* dataChannel.onmessage
onmessageP2P(w, a, message) ==
  IF ~message.wellFormed
  THEN onError(w, a, "Failed to parse realtime event payload.")
  ELSE CASE message.type = "response.output_audio_transcript.delta" ->
              IF readEventText(message) # ""
              THEN onAiTranscriptDelta(w, readEventText(message)) ELSE w
         [] message.type = "response.output_audio_transcript.done" -> onAiTurnDone(w)
         [] message.type = "conversation.item.input_audio_transcription.completed" ->
              IF readEventText(message) # ""
              THEN onUserTurn(w, readEventText(message)) ELSE w
         [] message.type = "error" ->
              onError(w, a, IF Len(message.errorMessage) = 1 /\ message.errorMessage[1] # ""
                            THEN message.errorMessage[1]
                            ELSE "Realtime data channel returned an error.")
         [] OTHER -> w

\* what the remote end sends in the lifecycle specification
LifecycleMessages ==
  {DeltaMsg("Hel"), DoneMsg, ErrorMsg(<<"Session token expired">>), ErrorMsg(<<>>), Malformed}

DataChannelMessage(a, messages, limit) ==
  /\ p2p[a].dataChannel = "open"
  /\ Len(obs.wire) < limit
  /\ \E m \in messages :
       Commit(onmessageP2P([World EXCEPT !.obs.wire = Append(@, m)], a, m))

(***************************************************************************)
(* Streaming-model path: the rest of startSession after getUserMedia, and  *)
(* the callbacks given to ai.live.connect.                                 *)
(***************************************************************************)
\* variant for C38: the capture handler installed with the script processor, before
\* the connection is requested
GeminiMicGrantedInstallsHandler(a) ==
  /\ run[a].pc = "mic"
  /\ LET w1 == setDiagnostics(World, [key |-> "ok", mic |-> "ok", network |-> "checking",
                                      session |-> "connecting",
                                      message |-> "Microphone ready. Opening live model connection..."])
     IN Commit([w1 EXCEPT !.gem[a].track = "live",
                          !.gem[a].capturing = TRUE,
                          !.run[a].volumeInterval = "active",
                          !.gem[a].promise = "pending",
                          !.gem[a].socket = "connecting",
                          !.run[a].connectTimeout = "pending",
                          !.refs.connectTimeoutRef = a,
                          !.refs.sessionRef = [kind |-> "promise", of |-> a],
                          !.run[a].durationInterval = "active",
                          !.refs.timerRef = a,
                          !.run[a].pc = "done"])

\* getUserMedia resolved: analyser and volume sampler, ai.live.connect, the connection
\* timeout, sessionRef and the duration timer
GeminiMicGranted(a) ==
  /\ run[a].pc = "mic"
  /\ LET w1 == setDiagnostics(World, [key |-> "ok", mic |-> "ok", network |-> "checking",
                                      session |-> "connecting",
                                      message |-> "Microphone ready. Opening live model connection..."])
     IN Commit([w1 EXCEPT !.gem[a].track = "live",
                          !.run[a].volumeInterval = "active",
                          !.gem[a].promise = "pending",
                          !.gem[a].socket = "connecting",
                          !.run[a].connectTimeout = "pending",
                          !.refs.connectTimeoutRef = a,
                          !.refs.sessionRef = [kind |-> "promise", of |-> a],
                          !.run[a].durationInterval = "active",
                          !.refs.timerRef = a,
                          !.run[a].pc = "done"])

GeminiMicRefusedWith(a, errors) ==
  /\ run[a].pc = "mic"
  /\ \E e \in errors : Commit(catchStartSession(World, a, e))

GeminiMicRefused(a) == GeminiMicRefusedWith(a, MicrophoneErrors)

onopen(w, a) ==
  LET w1 == IF w.run[a].mounted THEN setStatus(w, "connected") ELSE w
      w2 == clearConnectTimeout(w1)
      w3 == setDiagnostics(w2, [key |-> "ok", mic |-> "ok", network |-> "ok",
                                session |-> "live", message |-> "Live session connected."])
  IN [w3 EXCEPT !.gem[a].capturing = TRUE]

\* scriptProcessor.onaudioprocess: isMuted is the value the effect's render closed over
onaudioprocess(w, a, inputData) ==
  LET w1 == [w EXCEPT !.gem[a].captured = @ + 1] IN
  IF w1.run[a].isMuted THEN w1
  ELSE thenSession(w1, a, [op |-> "send",
                           frame |-> [n |-> w1.gem[a].captured, muted |-> w1.isMuted,
                                      onOpenSocket |-> FALSE,
                                      samples |-> inputData,
                                      media |-> createBlob(inputData)]])

\* a server message without inline audio
ServerMessage(transcript) == [audio |-> <<>>, transcript |-> transcript]

\* a server message whose first part carries base64 audio
AudioMessage(data, transcript) == [audio |-> <<data>>, transcript |-> transcript]

\* the transcription part of onmessage
pushTranscript(w, message) ==
  IF Len(message.transcript) = 1 /\ message.transcript[1] # ""
  THEN [w EXCEPT !.refs.transcriptRef = Append(@, "AI: " \o message.transcript[1])]
  ELSE w

\* nextStartTimeRef.current = Math.max(nextStartTimeRef.current, currentTime)
alignNextStart(w, a) ==
  LET now == w.gem[a].currentTime
  IN IF now > w.refs.nextStartTimeRef THEN [w EXCEPT !.refs.nextStartTimeRef = now] ELSE w

\* audioBuffer.duration in frames, the unit of the playback clock
bufferDuration(data) == Len(decodeAudioData(decode(data), 1)[1])

\* variant for C13: the source is started at the current time of the clock
startSourceAtCurrentTime(w, a, data) ==
  LET at == w.gem[a].currentTime
  IN [w EXCEPT !.gem[a].schedule =
                 Append(@, [start |-> at, duration |-> bufferDuration(data),
                            clock |-> w.gem[a].currentTime]),
               !.refs.nextStartTimeRef = at + bufferDuration(data)]

\* source.start(nextStartTimeRef.current); nextStartTimeRef.current += audioBuffer.duration
startSource(w, a, data) ==
  LET at == w.refs.nextStartTimeRef
  IN [w EXCEPT !.gem[a].schedule =
                 Append(@, [start |-> at, duration |-> bufferDuration(data),
                            clock |-> w.gem[a].currentTime]),
               !.refs.nextStartTimeRef = at + bufferDuration(data)]

\* onmessage from Math.max to its end.  decodeAudioData is an async function without
\* an await of its own: its promise is already resolved, and the handler continues in
\* the microtasks of the same task, before any other event is delivered.
\* An exception of decode (atob) or of decodeAudioData (an Int16Array over an odd
\* number of bytes) rejects the promise of this invocation of the handler, which
\* nobody awaits: the rest of the invocation does not run.
onmessageDecoded(w, a, message) ==
  LET w1 == alignNextStart(w, a) IN
  IF atobThrows(message.audio[1]) THEN throw(w1, "InvalidCharacterError")
  ELSE IF Len(decode(message.audio[1])) % 2 = 1 THEN throw(w1, "RangeError")
  ELSE pushTranscript(startSource(w1, a, message.audio[1]), message)

\* the rejection of one invocation is reported and does not reach the next one
settle(w) ==
  IF w.exc = "none" THEN w ELSE [w EXCEPT !.exc = "none", !.obs.uncaught = TRUE]

\* onmessage up to its first await that takes time: resume() of a suspended context
onmessage(w, a, message) ==
  IF Len(message.audio) = 1 /\ message.audio[1] # ""
  THEN IF w.gem[a].outputSuspended
       THEN [w EXCEPT !.gem[a].inflight = Append(@, [stage |-> "resume", message |-> message])]
       ELSE onmessageDecoded(w, a, message)
  ELSE pushTranscript(w, message)

\* the handlers waiting for resume() continue in the order of their calls
RECURSIVE onmessageResumed(_, _)
onmessageResumed(w, a) ==
  IF w.gem[a].inflight = <<>> THEN w
  ELSE onmessageResumed(
         settle(onmessageDecoded([w EXCEPT !.gem[a].inflight = Tail(@)], a,
                                 Head(w.gem[a].inflight).message)), a)

onclose(w, a) ==
  setDiagnostics(w, [w.diagnostics EXCEPT !.session = "closed", !.message = "Session closed."])

onerror(w, a, err) ==
  LET w1 == IF w.run[a].mounted THEN setStatus(w, "error") ELSE w
      next == classifyError(w1.run[a].diagnostics, err)
  IN setDiagnostics(classified(w1, "classifyError", err, w1.run[a].diagnostics, next),
                    next)

(***************************************************************************)
(* Streaming-model path: events of the socket, the session promise and the *)
(* audio graph.                                                            *)
(***************************************************************************)
SocketErrors ==
  {EventErr, ErrorObj("ErrorEvent", "API key not valid. Please pass a valid API key.")}

StreamMessages == {ServerMessage(<<"Tell me about that moment.">>), ServerMessage(<<>>)}

SocketOpens(a) ==
  /\ gem[a].socket = "connecting"
  /\ Commit(onopen([World EXCEPT !.gem[a].socket = "open"], a))

\* sessionPromise resolves once the socket has opened: pending reactions run in order
SessionResolves(a) ==
  /\ gem[a].promise = "pending"
  /\ gem[a].capturing
  /\ Commit(runReactions([World EXCEPT !.gem[a].promise = "resolved",
                                       !.gem[a].queued = <<>>], a, gem[a].queued))

\* the connection never opened: sessionPromise rejects, pending reactions never run
SessionRejects(a) ==
  /\ gem[a].promise = "pending"
  /\ ~gem[a].capturing
  /\ gem[a].socket \in {"failed", "closed"}
  /\ Commit([World EXCEPT !.gem[a].promise = "rejected", !.gem[a].queued = <<>>])

SocketMessageWith(a, messages, limit) ==
  /\ gem[a].socket = "open"
  /\ Len(obs.wire) < limit
  /\ \E m \in messages :
       Commit(onmessage([World EXCEPT !.obs.wire = Append(@, m)], a, m))

SocketMessage(a) == SocketMessageWith(a, StreamMessages, MaxMsgs)

\* the output context turns out to be suspended (no user gesture yet) before any audio
OutputSuspended(a) ==
  /\ gem[a].outputContext = "running"
  /\ ~gem[a].outputSuspended
  /\ gem[a].currentTime = 0
  /\ gem[a].inflight = <<>> /\ gem[a].schedule = <<>>
  /\ Commit([World EXCEPT !.gem[a].outputSuspended = TRUE])

\* resume() succeeds: one task sets the context running and resolves the promises of
\* all pending resume() calls in order
OutputResumed(a) ==
  /\ gem[a].outputSuspended
  /\ gem[a].inflight # <<>>
  /\ Commit(onmessageResumed([World EXCEPT !.gem[a].outputSuspended = FALSE], a))

\* the playback clock of a running output context advances by one frame
ClockAdvances(a) ==
  /\ gem[a].outputContext = "running"
  /\ ~gem[a].outputSuspended
  /\ gem[a].currentTime < MaxClock
  /\ Commit([World EXCEPT !.gem[a].currentTime = @ + 1])

SocketErrorWith(a, errors) ==
  /\ gem[a].socket \in {"connecting", "open"}
  /\ \E e \in errors :
       Commit(onerror([World EXCEPT !.gem[a].socket =
                         IF @ = "connecting" THEN "failed" ELSE "closing"], a, e))

SocketError(a) == SocketErrorWith(a, SocketErrors)

\* the close event: after an error, after session.close(), or closed by the server
SocketCloses(a) ==
  /\ gem[a].socket \in {"open", "closing", "failed"}
  /\ Commit(onclose([World EXCEPT !.gem[a].socket = "closed"], a))

\* one buffer of microphone samples drawn from inputs
AudioProcessWith(a, inputs) ==
  /\ gem[a].capturing
  /\ gem[a].inputContext = "running"
  /\ gem[a].captured < MaxFrames
  /\ \E inputData \in inputs : Commit(onaudioprocess(World, a, inputData))

SilentBuffer == <<0, 0>>

AudioProcess(a) == AudioProcessWith(a, {SilentBuffer})

(***************************************************************************)
(* Specifications.  Each covers one session attempt of one backend, from   *)
(* mount to End Session or unmount, with every event of that backend.      *)
(***************************************************************************)
PeerConfigurations == {s \in SettingsSet : provider(s) = "AZURE_OPENAI_REALTIME"}
StreamConfigurations == {s \in SettingsSet : provider(s) = "GEMINI"}

NextP2P ==
  \/ Mount(PeerConfigurations)
  \/ Unmount
  \/ EndSession
  \/ \E a \in Attempts : ConnectTimeoutFires(a)
  \/ \E a \in Attempts : DurationTick(a)
  \/ \E a \in Attempts : TokenGranted(a)
  \/ \E a \in Attempts : TokenRefused(a)
  \/ \E a \in Attempts : MicGranted(a)
  \/ \E a \in Attempts : MicRefused(a)
  \/ \E a \in Attempts : NegotiationStep(a)
  \/ \E a \in Attempts : NegotiationFails(a)
  \/ \E a \in Attempts : HandleReturned(a)
  \/ \E a \in Attempts : ConnectionStateChange(a)
  \/ \E a \in Attempts : DisconnectTimerFires(a)
  \/ \E a \in Attempts : DataChannelOpen(a)
  \/ \E a \in Attempts : DataChannelError(a)
  \/ \E a \in Attempts : DataChannelClose(a)
  \/ \E a \in Attempts : DataChannelMessage(a, LifecycleMessages, MaxMsgs)

SpecP2P == Init /\ [][NextP2P]_vars

NextStream ==
  \/ Mount(StreamConfigurations)
  \/ Unmount
  \/ EndSession
  \/ \E a \in Attempts : ConnectTimeoutFires(a)
  \/ \E a \in Attempts : DurationTick(a)
  \/ \E a \in Attempts : GeminiMicGranted(a)
  \/ \E a \in Attempts : GeminiMicRefused(a)
  \/ \E a \in Attempts : SocketOpens(a)
  \/ \E a \in Attempts : SessionResolves(a)
  \/ \E a \in Attempts : SessionRejects(a)
  \/ \E a \in Attempts : SocketMessage(a)
  \/ \E a \in Attempts : SocketError(a)
  \/ \E a \in Attempts : SocketCloses(a)

SpecStream == Init /\ [][NextStream]_vars

(***************************************************************************)
(* Transcript accumulation of a peer-to-peer session: the session opens    *)
(* and the remote end sends any sequence of delta, turn-done and           *)
(* local-party events, while the connection may degrade and the user may   *)
(* leave.                                                                  *)
(***************************************************************************)
TranscriptMessages ==
  {DeltaMsg("Hel"), DeltaMsg("lo the"), DeltaMsg("re"), DeltaMsg(" "), DeltaMsg(""),
   DoneMsg, UserTurnMsg(" I saw blue ")}

NextTranscript ==
  \/ Mount(PeerConfigurations)
  \/ Unmount
  \/ \E a \in Attempts : TokenGranted(a)
  \/ \E a \in Attempts : MicGranted(a)
  \/ \E a \in Attempts : NegotiationStep(a)
  \/ \E a \in Attempts : HandleReturned(a)
  \/ \E a \in Attempts : ConnectionStateChange(a)
  \/ \E a \in Attempts : DataChannelOpen(a)
  \/ \E a \in Attempts : DataChannelMessage(a, TranscriptMessages, MaxTurnMsgs)

\* the revision of the adapter that supervises the link (the transcript callbacks are
\* the same in both revisions)
InitGuarded == Init /\ impl = "guarded"

SpecTranscript == InitGuarded /\ [][NextTranscript]_vars

(***************************************************************************)
(* Link supervision of the guarded adapter: a session whose negotiation    *)
(* succeeds, then every event of the peer connection and the data channel, *)
(* both timers, End Session and unmount.  Message traffic and the duration *)
(* counter, which the connection handlers neither read nor write, are left *)
(* to SpecP2P.                                                             *)
(***************************************************************************)
NextLink ==
  \/ Mount(PeerConfigurations)
  \/ Unmount
  \/ EndSession
  \/ \E a \in Attempts : ConnectTimeoutFires(a)
  \/ \E a \in Attempts : TokenGranted(a)
  \/ \E a \in Attempts : MicGranted(a)
  \/ \E a \in Attempts : NegotiationStep(a)
  \/ \E a \in Attempts : HandleReturned(a)
  \/ \E a \in Attempts : ConnectionStateChange(a)
  \/ \E a \in Attempts : DisconnectTimerFires(a)
  \/ \E a \in Attempts : DataChannelOpen(a)
  \/ \E a \in Attempts : DataChannelError(a)
  \/ \E a \in Attempts : DataChannelClose(a)

SpecLink == InitGuarded /\ [][NextLink]_vars

(***************************************************************************)
(* Audio encoding on the streaming path: an open session whose microphone  *)
(* buffers hold samples over the whole range [-1, 1], the two ends, the    *)
(* levels next to them and the midpoints between levels included.          *)
(***************************************************************************)
SampleValues == {-2 * Int16Scale, -2 * Int16Scale + 1, -1, 0, 1, 3, 2 * Int16Scale - 2,
                 2 * Int16Scale - 1, 2 * Int16Scale}

SampleBuffers ==
  {<<x>> : x \in SampleValues} \cup {<<x, 0>> : x \in SampleValues}
    \cup {<<-1, x, 1>> : x \in SampleValues}

NextCodec ==
  \/ Mount({GeminiSettings("valid-key")})
  \/ Unmount
  \/ \E a \in Attempts : GeminiMicGranted(a)
  \/ \E a \in Attempts : SocketOpens(a)
  \/ \E a \in Attempts : SessionResolves(a)
  \/ \E a \in Attempts : AudioProcessWith(a, SampleBuffers)

SpecCodec == InitGuarded /\ [][NextCodec]_vars

(***************************************************************************)
(* Playback scheduling on the streaming path: audio chunks of one or three  *)
(* frames arrive at any time of the playback clock, before or after the    *)
(* output context runs.                                                    *)
(***************************************************************************)
AudioChunks ==
  {AudioMessage(createBlob(<<0>>).data, <<>>),
   AudioMessage(createBlob(<<0, 1, 0>>).data, <<"Tell me about that moment.">>)}

NextPlayback ==
  \/ Mount({GeminiSettings("valid-key")})
  \/ Unmount
  \/ \E a \in Attempts : GeminiMicGranted(a)
  \/ \E a \in Attempts : SocketOpens(a)
  \/ \E a \in Attempts : SocketMessageWith(a, AudioChunks, MaxChunks)
  \/ \E a \in Attempts : OutputSuspended(a)
  \/ \E a \in Attempts : OutputResumed(a)
  \/ \E a \in Attempts : ClockAdvances(a)

SpecPlayback == InitGuarded /\ [][NextPlayback]_vars

(***************************************************************************)
(* Reconfiguration: the settings object is replaced while a session of     *)
(* either backend is being set up or is open; both attempts then proceed   *)
(* with their setup steps and connection events.                           *)
(***************************************************************************)
Reconfigurations == {AzureSettings, GeminiSettings("valid-key")}

NextReconfig ==
  \/ Mount(Reconfigurations)
  \/ ConfigChange(Reconfigurations)
  \/ Unmount
  \/ \E a \in Attempts : TokenGranted(a)
  \/ \E a \in Attempts : MicGranted(a)
  \/ \E a \in Attempts : NegotiationStep(a)
  \/ \E a \in Attempts : HandleReturned(a)
  \/ \E a \in Attempts : ConnectionStateChange(a)
  \/ \E a \in Attempts : DataChannelOpen(a)
  \/ \E a \in Attempts : DataChannelClose(a)
  \/ \E a \in Attempts : GeminiMicGranted(a)
  \/ \E a \in Attempts : SocketOpens(a)
  \/ \E a \in Attempts : SessionResolves(a)
  \/ \E a \in Attempts : SocketCloses(a)

SpecReconfig == InitGuarded /\ [][NextReconfig]_vars

(***************************************************************************)
(* Error classification: a session of either backend in which every        *)
(* failure the controller classifies (a rejected setup step, a socket      *)
(* error, an error reported by the adapter) carries a raw error drawn from *)
(* RawErrors or a message drawn from ErrorMessages.                        *)
(***************************************************************************)
RawErrors ==
  {ErrorObj("Error", "Missing Gemini API key. Set it in Settings."),
   ErrorObj("Error", "Azure realtime token request failed"),
   ErrorObj("NotAllowedError", "Permission denied"),
   ErrorObj("NotAllowedError", ""),
   ErrorObj("NotFoundError", "Requested device not found"),
   ErrorObj("TypeError", "Failed to fetch"),
   StringErr("Microphone unavailable"), StringErr("AUTH failure"), StringErr(""),
   NullErr, UndefinedErr, EventErr}

ErrorMessages ==
  {ErrorMsg(<<"Session token expired">>), ErrorMsg(<<"Microphone permission revoked">>),
   ErrorMsg(<<"Server overloaded">>), ErrorMsg(<<>>), Malformed}

NextClassify ==
  \/ Mount(SettingsSet)
  \/ Unmount
  \/ \E a \in Attempts : ConnectTimeoutFires(a)
  \/ \E a \in Attempts : TokenGranted(a)
  \/ \E a \in Attempts : TokenRefusedWith(a, RawErrors)
  \/ \E a \in Attempts : MicGranted(a)
  \/ \E a \in Attempts : NegotiationStep(a)
  \/ \E a \in Attempts : HandleReturned(a)
  \/ \E a \in Attempts : ConnectionStateChange(a)
  \/ \E a \in Attempts : DataChannelOpen(a)
  \/ \E a \in Attempts : DataChannelMessage(a, ErrorMessages, MaxMsgs)
  \/ \E a \in Attempts : GeminiMicGranted(a)
  \/ \E a \in Attempts : GeminiMicRefusedWith(a, RawErrors)
  \/ \E a \in Attempts : SocketOpens(a)
  \/ \E a \in Attempts : SocketErrorWith(a, RawErrors)
  \/ \E a \in Attempts : SocketCloses(a)

SpecClassify == InitGuarded /\ [][NextClassify]_vars

(***************************************************************************)
(* Audio capture on the streaming path: the mute button and the frames.    *)
(* The timers and the inbound messages, which touch neither the frames nor *)
(* the session, are left to SpecStream.                                    *)
(***************************************************************************)
NextCapture ==
  \/ Mount({GeminiSettings("valid-key")})
  \/ Unmount
  \/ EndSession
  \/ ToggleMute
  \/ \E a \in Attempts : GeminiMicGranted(a)
  \/ \E a \in Attempts : SocketOpens(a)
  \/ \E a \in Attempts : SessionResolves(a)
  \/ \E a \in Attempts : SocketError(a)
  \/ \E a \in Attempts : SocketCloses(a)
  \/ \E a \in Attempts : AudioProcess(a)

SpecCapture == Init /\ [][NextCapture]_vars

(***************************************************************************)
(* Abandonment: a session of either backend whose setup steps all succeed, *)
(* left by the user at any moment, with or without End Session.  Every     *)
(* pending step of the setup (a promise of the browser or of the SDK)      *)
(* settles sooner or later, whether the component is still there or not.   *)
(***************************************************************************)
SetupStep ==
  \E a \in Attempts :
    \/ TokenGranted(a) \/ MicGranted(a) \/ NegotiationStep(a) \/ HandleReturned(a)
    \/ GeminiMicGranted(a) \/ SocketOpens(a) \/ SessionResolves(a)

NextAbandon ==
  \/ Mount(Reconfigurations)
  \/ Unmount
  \/ EndSession
  \/ \E a \in Attempts : TokenGranted(a)
  \/ \E a \in Attempts : MicGranted(a)
  \/ \E a \in Attempts : NegotiationStep(a)
  \/ \E a \in Attempts : HandleReturned(a)
  \/ \E a \in Attempts : ConnectionStateChange(a)
  \/ \E a \in Attempts : DataChannelOpen(a)
  \/ \E a \in Attempts : GeminiMicGranted(a)
  \/ \E a \in Attempts : SocketOpens(a)
  \/ \E a \in Attempts : SessionResolves(a)
  \/ \E a \in Attempts : SocketCloses(a)

SpecAbandon == InitGuarded /\ [][NextAbandon]_vars /\ WF_vars(SetupStep)

(***************************************************************************)
(* Transcript accumulation of a streaming session: messages with audio,    *)
(* with a transcription, with both or with neither arrive on the open      *)
(* socket, while the output context runs or is still suspended.            *)
(***************************************************************************)
LogMessages ==
  {AudioMessage(createBlob(<<0>>).data, <<"Tell me about that moment.">>),
   AudioMessage(createBlob(<<0>>).data, <<>>),
   ServerMessage(<<"What did you see?">>),
   ServerMessage(<<>>)}

NextLog ==
  \/ Mount({GeminiSettings("valid-key")})
  \/ Unmount
  \/ \E a \in Attempts : GeminiMicGranted(a)
  \/ \E a \in Attempts : SocketOpens(a)
  \/ \E a \in Attempts : SocketMessageWith(a, LogMessages, MaxChunks)
  \/ \E a \in Attempts : OutputSuspended(a)
  \/ \E a \in Attempts : OutputResumed(a)

SpecLog == InitGuarded /\ [][NextLog]_vars

(***************************************************************************)
(* Side-channel traffic of an open peer-to-peer session in which some      *)
(* payloads cannot be parsed: deltas, turn-done and local-party events     *)
(* arrive before and after them.                                           *)
(***************************************************************************)
ParseMessages == {Malformed, DeltaMsg("Hel"), DoneMsg, UserTurnMsg(" I saw blue ")}

NextParse ==
  \/ Mount(PeerConfigurations)
  \/ Unmount
  \/ \E a \in Attempts : TokenGranted(a)
  \/ \E a \in Attempts : MicGranted(a)
  \/ \E a \in Attempts : NegotiationStep(a)
  \/ \E a \in Attempts : HandleReturned(a)
  \/ \E a \in Attempts : ConnectionStateChange(a)
  \/ \E a \in Attempts : DataChannelOpen(a)
  \/ \E a \in Attempts : DataChannelMessage(a, ParseMessages, MaxTurnMsgs)

SpecParse == InitGuarded /\ [][NextParse]_vars

(***************************************************************************)
(* Inbound audio of a streaming session in which some chunks cannot be     *)
(* decoded: text that is not base64, and base64 of an odd number of bytes. *)
(***************************************************************************)
DropMessages ==
  {AudioMessage("!!!!", <<"Tell me about that moment.">>),
   AudioMessage("AAAA", <<>>),
   AudioMessage(createBlob(<<0>>).data, <<>>),
   ServerMessage(<<"What did you see?">>)}

NextDrop ==
  \/ Mount({GeminiSettings("valid-key")})
  \/ Unmount
  \/ \E a \in Attempts : GeminiMicGranted(a)
  \/ \E a \in Attempts : SocketOpens(a)
  \/ \E a \in Attempts : SocketMessageWith(a, DropMessages, MaxChunks)

SpecDrop == InitGuarded /\ [][NextDrop]_vars

(***************************************************************************)
(* Audio encoding of an overdriven input: microphone buffers whose samples *)
(* reach and exceed full scale in both directions (1.0, just above it,     *)
(* 1.5, 3.0, just below -1.0, -1.5) next to samples inside the range.      *)
(***************************************************************************)
LoudValues == {-3 * Int16Scale, -2 * Int16Scale - 2, -2 * Int16Scale - 1, -1, 0, 1,
               2 * Int16Scale - 1, 2 * Int16Scale, 2 * Int16Scale + 1, 3 * Int16Scale,
               6 * Int16Scale}

LoudBuffers == {<<x>> : x \in LoudValues} \cup {<<x, 0>> : x \in LoudValues}

NextOverdrive ==
  \/ Mount({GeminiSettings("valid-key")})
  \/ Unmount
  \/ \E a \in Attempts : GeminiMicGranted(a)
  \/ \E a \in Attempts : SocketOpens(a)
  \/ \E a \in Attempts : SessionResolves(a)
  \/ \E a \in Attempts : AudioProcessWith(a, LoudBuffers)

SpecOverdrive == InitGuarded /\ [][NextOverdrive]_vars

(***************************************************************************)
(* Restart: a streaming session that has opened, counted seconds and       *)
(* logged lines when the parent passes a new settings object.              *)
(***************************************************************************)
NextRestart ==
  \/ Mount({GeminiSettings("valid-key")})
  \/ ConfigChange({GeminiSettings("valid-key")})
  \/ EndSession
  \/ \E a \in Attempts : DurationTick(a)
  \/ \E a \in Attempts : GeminiMicGranted(a)
  \/ \E a \in Attempts : SocketOpens(a)
  \/ \E a \in Attempts : SocketMessageWith(a, AudioChunks, MaxMsgs)

SpecRestart == InitGuarded /\ [][NextRestart]_vars

(***************************************************************************)
(* Grace timer of the guarded adapter.  Besides the transitions of         *)
(* ConnectionTransitions the peer connection may leave disconnected for    *)
(* connecting (the ICE agent checks candidates again) and fall back to     *)
(* disconnected, so that disconnected is entered while a timer is held.    *)
(***************************************************************************)
IceTransitions ==
  ConnectionTransitions \cup {<<"disconnected", "connecting">>, <<"connecting", "disconnected">>}

NextGrace ==
  \/ Mount(PeerConfigurations)
  \/ Unmount
  \/ EndSession
  \/ \E a \in Attempts : TokenGranted(a)
  \/ \E a \in Attempts : MicGranted(a)
  \/ \E a \in Attempts : NegotiationStep(a)
  \/ \E a \in Attempts : HandleReturned(a)
  \/ \E a \in Attempts : ConnectionStateChangeWith(a, IceTransitions)
  \/ \E a \in Attempts : DisconnectTimerFires(a)
  \/ \E a \in Attempts : DataChannelOpen(a)
  \/ \E a \in Attempts : DataChannelError(a)
  \/ \E a \in Attempts : DataChannelClose(a)

SpecGrace == InitGuarded /\ [][NextGrace]_vars

(***************************************************************************)
(* C1: when the connection timeout fires while the attempt is still        *)
(* connecting (no onOpen, no error so far), the controller moves to ERROR, *)
(* marks the network slot fail and invokes the adapter's close() once.     *)
(***************************************************************************)
closeRequests(a) ==
  p2p[a].closeCalls + gem[a].closeCalls
    + Cardinality({i \in DOMAIN gem[a].queued : gem[a].queued[i].op = "close"})

C1_TimeoutClosesAdapter ==
  [][\A a \in Attempts :
       (/\ run[a].connectTimeout = "pending"
        /\ run'[a].connectTimeout = "fired"
        /\ status = "connecting"
        /\ run[a].pc # "failed"
        /\ p2p[a].onErrorCalls = 0)
       => (/\ status' = "error"
           /\ diagnostics'.network = "fail"
           /\ closeRequests(a)' = closeRequests(a) + 1)]_vars

(***************************************************************************)
(* C2: no frame captured while the mute flag is set reaches the remote     *)
(* end.                                                                    *)
(***************************************************************************)
C2_MutedFramesNotSent ==
  \A a \in Attempts : \A i \in DOMAIN gem[a].sent :
    gem[a].sent[i].onOpenSocket => ~gem[a].sent[i].muted

(***************************************************************************)
(* C3: once close() has been called twice on a handle, onClose has been    *)
(* delivered exactly once and no call threw.                               *)
(***************************************************************************)
C3_CloseIdempotent ==
  \A a \in Attempts :
    p2p[a].closeCalls >= 2 => (p2p[a].onCloseCalls = 1 /\ p2p[a].closeThrows = 0)

(***************************************************************************)
(* C4: after the component is torn down no microphone track is live and    *)
(* every audio context that was created has been closed exactly once.      *)
(***************************************************************************)
C4_TeardownReleasesAudio ==
  \A a \in Attempts :
    ~componentMounted =>
      /\ gem[a].track # "live"
      /\ p2p[a].pc = "returned" => p2p[a].track # "live"
      /\ gem[a].inputContext # "none" =>
           (gem[a].inputContext = "closed" /\ gem[a].inputCloses = 1)
      /\ gem[a].outputContext # "none" =>
           (gem[a].outputContext = "closed" /\ gem[a].outputCloses = 1)

(***************************************************************************)
(* C9: once onOpen or an error has occurred, the connection timeout of     *)
(* the attempt does not fire.                                              *)
(***************************************************************************)
opened(a) == p2p[a].dataChannel = "open" \/ gem[a].capturing

errored(a) == run[a].pc = "failed" \/ p2p[a].onErrorCalls > 0 \/ gem[a].socket = "failed"

C9_TimeoutCancelled ==
  [][\A a \in Attempts :
       (opened(a) \/ errored(a)) => run'[a].connectTimeout # "fired"
                                      \/ run[a].connectTimeout = "fired"]_vars

(***************************************************************************)
(* C10: whenever a diagnostics slot (credential, microphone, network)      *)
(* shows fail, the status is ERROR.                                        *)
(***************************************************************************)
C10_FailImpliesError ==
  (diagnostics.key = "fail" \/ diagnostics.mic = "fail" \/ diagnostics.network = "fail")
    => status = "error"

(***************************************************************************)
(* C5: the AI lines of the transcript are, in order, one line per          *)
(* turn-done event whose turn text is not empty: 'AI: ' followed by the    *)
(* trimmed concatenation of the deltas received since the previous         *)
(* turn-done.  Deltas alone add no line, an empty turn adds none.          *)
(***************************************************************************)
isDone(m) == m.type = "response.output_audio_transcript.done"

isDelta(m) == m.type = "response.output_audio_transcript.delta"

\* concatenation of the delta texts that precede position k back to the previous done
RECURSIVE turnText(_, _)
turnText(wire, k) ==
  IF k = 0 \/ isDone(wire[k]) THEN ""
  ELSE turnText(wire, k - 1) \o (IF isDelta(wire[k]) THEN wire[k].delta[1] ELSE "")

RECURSIVE expectedAiLines(_, _)
expectedAiLines(wire, k) ==
  IF k = 0 THEN <<>>
  ELSE LET text == trim(turnText(wire, k - 1)) IN
       IF isDone(wire[k]) /\ text # ""
       THEN Append(expectedAiLines(wire, k - 1), "AI: " \o text)
       ELSE expectedAiLines(wire, k - 1)

isAiLine(line) == Len(line) >= 4 /\ SubSeq(line, 1, 4) = "AI: "

C5_OneLinePerTurn ==
  SelectSeq(refs.transcriptRef, isAiLine) = expectedAiLines(obs.wire, Len(obs.wire))

C5_Witness ==
  /\ obs.wire = <<DeltaMsg("Hel"), DeltaMsg("lo the"), DeltaMsg("re"), DoneMsg>>
  /\ refs.transcriptRef = <<"AI: Hello there">>

(***************************************************************************)
(* C6: an attempt on the streaming backend whose credential is empty or    *)
(* whitespace fails before the microphone, the audio contexts and the      *)
(* network are touched: the credential slot is fail and the status ERROR.  *)
(***************************************************************************)
C6_MissingKeyFailsFirst ==
  \A a \in Attempts :
    (/\ run[a].pc # "none"
     /\ provider(run[a].settings) = "GEMINI"
     /\ trim(run[a].settings.apiKey) = "")
    => /\ run[a].pc = "failed"
       /\ gem[a] = NoGem
       /\ run[a].connectTimeout = "none"
       /\ diagnostics.key = "fail"
       /\ status = "error"

C6_Witness ==
  \E a \in Attempts :
    /\ run[a].settings = GeminiSettings("  ")
    /\ run[a].pc = "failed"
    /\ diagnostics.key = "fail"
    /\ status = "error"

(***************************************************************************)
(* C7: when the peer connection comes back to connected while the grace    *)
(* timer is pending, the timer is cancelled, no error is delivered, the    *)
(* session stays open and the status is unchanged.                         *)
(***************************************************************************)
C7_RecoveryCancelsTimer ==
  [][\A a \in Attempts :
       (/\ p2p[a].disconnectTimer
        /\ p2p[a].connection = "disconnected"
        /\ p2p'[a].connection = "connected")
       => /\ ~p2p'[a].disconnectTimer
          /\ ~p2p'[a].graceFired
          /\ p2p'[a].onErrorCalls = p2p[a].onErrorCalls
          /\ p2p'[a].onCloseCalls = p2p[a].onCloseCalls
          /\ ~p2p'[a].isClosed
          /\ status' = status]_vars

C7_Witness ==
  \E a \in Attempts :
    /\ p2p[a].recovered
    /\ p2p[a].connection = "connected"
    /\ ~p2p[a].disconnectTimer
    /\ p2p[a].onErrorCalls = 0
    /\ status = "connected"

C11_SessionSlotTerminal ==
  [][(diagnostics.session \in {"error", "closed"} /\ cur' = cur)
       => diagnostics'.session = diagnostics.session]_vars

(***************************************************************************)
(* C17: once the component is torn down no timer of the session is still   *)
(* armed: neither the elapsed-seconds interval, nor the mic-level sampler, *)
(* nor the connection timeout.                                             *)
(***************************************************************************)
C17_NoTimerAfterTeardown ==
  ~componentMounted =>
    \A a \in Attempts :
      /\ run[a].durationInterval # "active"
      /\ run[a].volumeInterval # "active"
      /\ run[a].connectTimeout # "pending"

(***************************************************************************)
(* C18: after the component is torn down no callback changes the status,   *)
(* the diagnostics or the transcript.                                      *)
(***************************************************************************)
C18_LateCallbacksAreNoOps ==
  [][~componentMounted =>
       /\ status' = status
       /\ diagnostics' = diagnostics
       /\ refs'.transcriptRef = refs.transcriptRef]_vars

(***************************************************************************)
(* C20: when the adapter's open fails after the microphone was acquired,   *)
(* no handle is returned, no microphone track is left live and the peer    *)
(* connection is closed.                                                   *)
(***************************************************************************)
C20_FailedOpenReleasesMicrophone ==
  \A a \in Attempts :
    p2p[a].pc = "failed" =>
      /\ refs.sessionRef.kind # "handle"
      /\ p2p[a].track # "live"
      /\ p2p[a].connection \in {"none", "closed"}

(***************************************************************************)
(* C19: in the guarded adapter teardown runs at most once whatever asks    *)
(* for it (close(), the side channel closing, the connection reaching      *)
(* closed or failed, the grace timer): once the session is closed, onClose *)
(* has been signalled exactly once and the tracks and the peer connection  *)
(* released exactly once; before that, never.                              *)
(***************************************************************************)
C19_TeardownRunsOnce ==
  \A a \in Attempts :
    /\ p2p[a].isClosed => (p2p[a].onCloseCalls = 1 /\ p2p[a].releases = 1)
    /\ ~p2p[a].isClosed => (p2p[a].onCloseCalls = 0 /\ p2p[a].releases = 0)

\* closed from the error path, then close() called and the side channel closed
C19_Witness ==
  \E a \in Attempts :
    /\ p2p[a].lastError = "Realtime peer connection failed."
    /\ p2p[a].closeCalls >= 1
    /\ p2p[a].dataChannel = "closed"
    /\ p2p[a].onCloseCalls = 1
    /\ p2p[a].releases = 1

(***************************************************************************)
(* C12: every End Session hands the caller the transcript lines joined in  *)
(* append order (the placeholder when there is none) together with the     *)
(* elapsed seconds shown at that moment.                                   *)
(***************************************************************************)
C12_EndSessionCompletes ==
  [][obs.endClicks' # obs.endClicks =>
       obs.completions' =
         Append(obs.completions,
                [transcript |-> IF refs.transcriptRef = <<>>
                                THEN "Conversational Session (Audio)"
                                ELSE join(refs.transcriptRef, "\n"),
                 duration |-> duration])]_vars

(***************************************************************************)
(* C16: every classification of a raw error (an Error object, a string,    *)
(* null, undefined) completes, marks exactly one of the slots key, mic,    *)
(* network as fail and leaves the other two as they were; an error whose   *)
(* text carries neither credential nor microphone wording marks network.   *)
(***************************************************************************)
Slots == {"key", "mic", "network"}

CredentialWords(by) ==
  IF by = "classifyError" THEN {"api key", "key", "auth", "permission denied"}
  ELSE {"configured", "token", "key"}

MicrophoneWords(by) ==
  IF by = "classifyError" THEN {"microphone", "permission", "notallowederror", "notfounderror"}
  ELSE {"microphone", "permission", "notallowederror"}

hasWording(text, words) == \E kw \in words : includes(toLowerCase(text), kw)

marksOnly(c, slot) ==
  /\ c.after[slot] = "fail"
  /\ \A other \in Slots \ {slot} : c.after[other] = c.before[other]

C16_ClassificationTotal ==
  \A i \in DOMAIN obs.classified :
    LET c == obs.classified[i]
        text == errorText(c.error)
    IN /\ Cardinality({slot \in Slots : marksOnly(c, slot)}) >= 1
       /\ Cardinality({slot \in Slots : c.after[slot] = "fail"
                                        /\ c.before[slot] # "fail"}) <= 1
       /\ c.after.session = "error"
       /\ (~hasWording(text, CredentialWords(c.by)) /\ ~hasWording(text, MicrophoneWords(c.by)))
            => marksOnly(c, "network")

\* null classified by classifyError after the checks had started
C16_Witness ==
  /\ obs.classified # <<>>
  /\ obs.classified[1].by = "classifyError"
  /\ obs.classified[1].error = NullErr
  /\ obs.classified[1].after.network = "fail"
  /\ diagnostics.network = "fail"
  /\ diagnostics.key # "fail"
  /\ diagnostics.mic # "fail"

(***************************************************************************)
(* C14: decoding the frame that encoding produced gives back as many       *)
(* samples as were captured, each within 1/32768 of the captured value at  *)
(* the same position.                                                      *)
(***************************************************************************)
abs(x) == IF x >= 0 THEN x ELSE -x

C14_CodecRoundTrip ==
  \A a \in Attempts : \A k \in DOMAIN gem[a].sent :
    LET frame == gem[a].sent[k]
        out == decodeAudioData(decode(frame.media.data), 1)[1]
    IN /\ Len(out) = Len(frame.samples)
       /\ \A i \in DOMAIN frame.samples : abs(2 * out[i] - frame.samples[i]) <= 2

(***************************************************************************)
(* C13: in the order in which the chunks are started, no chunk starts      *)
(* before the computed end of the one before it, and it starts exactly at  *)
(* that end whenever the playback clock has not passed it yet.             *)
(***************************************************************************)
chunkEnd(chunk) == chunk.start + chunk.duration

C13_BackToBackPlayback ==
  \A a \in Attempts : \A n \in DOMAIN gem[a].schedule :
    n > 1 =>
      LET previous == gem[a].schedule[n - 1]
          chunk == gem[a].schedule[n]
      IN /\ chunk.start >= chunkEnd(previous)
         /\ chunk.clock <= chunkEnd(previous) => chunk.start = chunkEnd(previous)

\* three chunks, the second queued behind the first, the third after a pause
C13_Witness ==
  \E a \in Attempts :
    /\ Len(gem[a].schedule) = 3
    /\ gem[a].schedule[2].start = chunkEnd(gem[a].schedule[1])
    /\ gem[a].schedule[2].clock < gem[a].schedule[2].start
    /\ gem[a].schedule[3].start > chunkEnd(gem[a].schedule[2])

(***************************************************************************)
(* C15: at most one transport adapter of the controller is active at any   *)
(* time, an adapter being active while it is being opened and, once open,  *)
(* until it is closed.                                                     *)
(***************************************************************************)
activeAdapter(a) ==
  \/ p2p[a].pc \in {"token", "mic", "offer", "local", "sdp", "answer"}
  \/ p2p[a].pc = "returned" /\ p2p[a].connection # "closed"
  \/ gem[a].socket \in {"connecting", "open", "closing"}

C15_OneActiveAdapter ==
  Cardinality({a \in Attempts : activeAdapter(a)}) <= 1

(***************************************************************************)
(* C21: within one session attempt, once the status is ERROR it stays      *)
(* ERROR: no later callback, a late onOpen after the connection timeout    *)
(* included, brings it back to CONNECTED or CONNECTING.                    *)
(***************************************************************************)
C21_ErrorIsTerminal ==
  [][(status = "error" /\ cur' = cur) => status' = "error"]_vars

(***************************************************************************)
(* C22: once the component is removed, at whatever point of the session's  *)
(* setup or life, close() is eventually invoked on the adapter of the      *)
(* attempt; and as long as End Session was never clicked, onComplete is    *)
(* never invoked.                                                          *)
(***************************************************************************)
closeInvoked ==
  \E a \in Attempts : a = cur /\ (p2p[a].closeCalls > 0 \/ gem[a].closeCalls > 0)

C22_UnmountClosesAdapter ==
  /\ [](~componentMounted => <>closeInvoked)
  /\ [](obs.endClicks = 0 => obs.completions = <<>>)

(***************************************************************************)
(* C23: End Session invokes close() on the stored handle, direct or        *)
(* pending, and leaves neither the elapsed-seconds timer nor the mic-level *)
(* sampler armed; the elapsed seconds do not advance afterwards.           *)
(***************************************************************************)
C23_EndSessionStopsEverything ==
  [][/\ obs.endClicks' # obs.endClicks =>
          /\ \A a \in Attempts :
               refs.sessionRef.of = a => closeRequests(a)' = closeRequests(a) + 1
          /\ \A a \in Attempts :
               /\ run'[a].durationInterval # "active"
               /\ run'[a].volumeInterval # "active"
     /\ obs.endClicks > 0 => duration' = duration]_vars

(***************************************************************************)
(* C24: the frames handed to the streaming session, those already sent     *)
(* followed by those waiting for the session promise, are in capture       *)
(* order; each send carries the encoding of exactly one captured buffer;   *)
(* no captured frame appears twice, and unless the connection never opened *)
(* none is missing.                                                        *)
(***************************************************************************)
isSend(r) == r.op = "send"

reactionFrame(r) == r.frame

handedFrames(a) ==
  LET waiting == SelectSeq(gem[a].queued, isSend)
  IN gem[a].sent \o [i \in DOMAIN waiting |-> reactionFrame(waiting[i])]

C24_FramesInCaptureOrder ==
  \A a \in Attempts :
    LET frames == handedFrames(a) IN
    /\ \A i, j \in DOMAIN frames : i < j => frames[i].n < frames[j].n
    /\ \A i \in DOMAIN frames :
         /\ frames[i].n \in 1..gem[a].captured
         /\ frames[i].media = createBlob(frames[i].samples)
    /\ gem[a].promise \in {"pending", "resolved"} => Len(frames) = gem[a].captured

\* two frames captured before the session promise resolved, then sent on the open socket
C24_Witness ==
  \E a \in Attempts :
    /\ Len(gem[a].sent) = 2
    /\ gem[a].sent[1].n = 1 /\ gem[a].sent[2].n = 2
    /\ gem[a].sent[1].onOpenSocket /\ gem[a].sent[2].onOpenSocket
    /\ gem[a].queued = <<>>

(***************************************************************************)
(* C25: once close() has been invoked on the streaming session, no further *)
(* captured frame is handed to it with sendRealtimeInput.                  *)
(***************************************************************************)
C25_NoSendAfterClose ==
  [][\A a \in Attempts :
       gem[a].closeCalls > 0 => gem'[a].sent = gem[a].sent]_vars

(***************************************************************************)
(* C26: within one session the transcript only grows at its end: each      *)
(* step leaves the earlier lines in place, every line starts with 'AI: '   *)
(* or 'Interviewee: ', and the lines are, in order, those of the messages  *)
(* that carried a transcription, in the order the messages arrived.        *)
(***************************************************************************)
isPrefix(short, long) ==
  Len(short) <= Len(long) /\ SubSeq(long, 1, Len(short)) = short

isIntervieweeLine(line) == Len(line) >= 13 /\ SubSeq(line, 1, 13) = "Interviewee: "

RECURSIVE arrivedLines(_, _)
arrivedLines(wire, k) ==
  IF k = 0 THEN <<>>
  ELSE IF Len(wire[k].transcript) = 1 /\ wire[k].transcript[1] # ""
       THEN Append(arrivedLines(wire, k - 1), "AI: " \o wire[k].transcript[1])
       ELSE arrivedLines(wire, k - 1)

C26_TranscriptAppendOnly ==
  [][cur' = cur =>
       /\ isPrefix(refs.transcriptRef, refs'.transcriptRef)
       /\ \A i \in DOMAIN refs'.transcriptRef :
            isAiLine(refs'.transcriptRef[i]) \/ isIntervieweeLine(refs'.transcriptRef[i])
       /\ isPrefix(refs'.transcriptRef, arrivedLines(obs'.wire, Len(obs'.wire)))]_vars

(***************************************************************************)
(* C27: when the token request is refused by the broker or cannot reach    *)
(* it, the open fails with the credential slot marked fail and the status  *)
(* ERROR, and the microphone has not been requested.                       *)
(***************************************************************************)
C27_BrokerFailureIsCredential ==
  [][\A a \in Attempts :
       (p2p[a].pc = "token" /\ p2p'[a].pc = "failed" /\ componentMounted)
       => /\ diagnostics'.key = "fail"
          /\ status' = "error"
          /\ p2p'[a].track = "none"]_vars

(***************************************************************************)
(* C28: when getUserMedia is refused (permission denied, no device), on    *)
(* either backend, the microphone slot is marked fail and the status is    *)
(* ERROR; neither the credential slot nor the network slot is marked.      *)
(***************************************************************************)
microphoneRefused(a) ==
  \/ p2p[a].pc = "mic" /\ p2p'[a].pc = "failed"
  \/ run[a].pc = "mic" /\ run'[a].pc = "failed"

C28_MicrophoneFailureIsMicrophone ==
  [][\A a \in Attempts :
       (microphoneRefused(a) /\ componentMounted)
       => /\ diagnostics'.mic = "fail"
          /\ status' = "error"
          /\ diagnostics'.key # "fail"
          /\ diagnostics'.network # "fail"]_vars

(***************************************************************************)
(* C29: the elapsed seconds never decrease, grow by one at a time, and     *)
(* grow only while the session is open: the status is CONNECTED and the    *)
(* component has not been torn down.                                       *)
(***************************************************************************)
C29_ElapsedOnlyWhileOpen ==
  [][/\ duration' \in {duration, duration + 1}
     /\ duration' # duration => (status = "connected" /\ componentMounted)]_vars

(***************************************************************************)
(* C30: when the peer connection enters failed, the adapter delivers one   *)
(* error and is closed in the same step: tracks and connection released,   *)
(* onClose signalled once, no grace timer left pending, also when the      *)
(* connection came from disconnected with the timer running.  After that   *)
(* no further error is delivered and no grace timer is armed again.        *)
(***************************************************************************)
C30_FailedClosesAtOnce ==
  [][\A a \in Attempts :
       /\ (p2p[a].failedFrom = "none" /\ p2p'[a].failedFrom # "none")
          => /\ p2p'[a].onErrorCalls = p2p[a].onErrorCalls + 1
             /\ p2p'[a].lastError = "Realtime peer connection failed."
             /\ p2p'[a].isClosed
             /\ p2p'[a].onCloseCalls = 1
             /\ p2p'[a].connection = "closed"
             /\ p2p'[a].track = "stopped"
             /\ ~p2p'[a].disconnectTimer
             /\ ~p2p'[a].graceFired
       /\ p2p[a].failedFrom # "none"
          => /\ p2p'[a].onErrorCalls = p2p[a].onErrorCalls
             /\ ~p2p'[a].disconnectTimer
             /\ ~p2p'[a].graceFired]_vars

\* failed reached from disconnected while the grace timer was running
C30_Witness ==
  \E a \in Attempts :
    /\ componentMounted
    /\ status = "error"
    /\ p2p[a].failedFrom = "disconnected"
    /\ p2p[a].lastError = "Realtime peer connection failed."
    /\ p2p[a].onErrorCalls = 1
    /\ p2p[a].isClosed
    /\ ~p2p[a].disconnectTimer
    /\ ~p2p[a].graceFired

(***************************************************************************)
(* C31: a side-channel message that cannot be parsed is reported through   *)
(* onError with the parsing-failure message and changes nothing else: the  *)
(* adapter stays open, nothing is released, the transcript and the delta   *)
(* buffer are untouched; the transcript keeps following the well-formed    *)
(* events that arrive before and after it.                                 *)
(***************************************************************************)
isUserTurn(m) == m.type = "conversation.item.input_audio_transcription.completed"

\* the lines due after the first k messages: one per turn-done with text, one per
\* local-party event with text, in arrival order
RECURSIVE expectedLog(_, _)
expectedLog(wire, k) ==
  IF k = 0 THEN <<>>
  ELSE LET earlier == expectedLog(wire, k - 1)
           m == wire[k]
       IN IF isDone(m) /\ trim(turnText(wire, k - 1)) # ""
          THEN Append(earlier, "AI: " \o trim(turnText(wire, k - 1)))
          ELSE IF isUserTurn(m) /\ trim(readEventText(m)) # ""
          THEN Append(earlier, "Interviewee: " \o trim(readEventText(m)))
          ELSE earlier

C31_MalformedMessageNotFatal ==
  [][/\ \A a \in Attempts :
          (a = cur /\ obs.wire' = Append(obs.wire, Malformed))
          => /\ p2p'[a].onErrorCalls = p2p[a].onErrorCalls + 1
             /\ p2p'[a].lastError = "Failed to parse realtime event payload."
             /\ p2p'[a].isClosed = p2p[a].isClosed
             /\ p2p'[a].dataChannel = "open"
             /\ p2p'[a].connection = p2p[a].connection
             /\ p2p'[a].track = "live"
             /\ p2p'[a].onCloseCalls = p2p[a].onCloseCalls
             /\ refs' = refs
     /\ refs'.transcriptRef = expectedLog(obs.wire', Len(obs.wire'))]_vars

\* a remote turn delivered after an unparseable message
C31_Witness ==
  \E a \in Attempts :
    /\ obs.wire = <<DeltaMsg("Hel"), Malformed, DoneMsg, UserTurnMsg(" I saw blue ")>>
    /\ refs.transcriptRef = <<"AI: Hel", "Interviewee: I saw blue">>
    /\ p2p[a].lastError = "Failed to parse realtime event payload."
    /\ p2p[a].dataChannel = "open"
    /\ ~p2p[a].isClosed

(***************************************************************************)
(* C32: a message whose audio cannot be decoded leaves the status as it    *)
(* was and starts no source; its transcription and those of the other      *)
(* messages are in the transcript in arrival order, and every decodable    *)
(* chunk that arrived has been scheduled.                                  *)
(***************************************************************************)
hasAudio(m) == Len(m.audio) = 1 /\ m.audio[1] # ""

undecodable(m) ==
  hasAudio(m) /\ (atobThrows(m.audio[1]) \/ Len(decode(m.audio[1])) % 2 = 1)

decodableChunk(m) == hasAudio(m) /\ ~undecodable(m)

C32_BadChunkDropped ==
  [][\A a \in Attempts :
       (a = cur /\ Len(obs.wire') = Len(obs.wire) + 1)
       => /\ undecodable(obs.wire'[Len(obs.wire')])
               => (status' = status /\ gem'[a].schedule = gem[a].schedule)
          /\ refs'.transcriptRef = arrivedLines(obs.wire', Len(obs.wire'))
          /\ Len(gem'[a].schedule) = Len(SelectSeq(obs.wire', decodableChunk))]_vars

(***************************************************************************)
(* C33: the open of the peer-to-peer adapter proceeds in one order.  The   *)
(* microphone is requested only when the token request has succeeded; the *)
(* track, the peer connection and the side channel exist from the moment   *)
(* the offer is asked for; the offer is posted only when                   *)
(* setLocalDescription has completed; the handle is stored only when       *)
(* setRemoteDescription has completed.                                     *)
(***************************************************************************)
AfterMicrophone == {"offer", "local", "sdp", "answer", "returned"}

C33_OpenStepsInOrder ==
  [][\A a \in Attempts :
       /\ (p2p'[a].pc = "mic" /\ p2p[a].pc # "mic") => p2p[a].pc = "token"
       /\ (p2p'[a].track # "none" /\ p2p[a].track = "none") => p2p[a].pc = "mic"
       /\ (p2p'[a].pc = "offer" /\ p2p[a].pc # "offer") => p2p[a].pc = "mic"
       /\ p2p'[a].pc \in AfterMicrophone
            => /\ p2p'[a].track # "none"
               /\ p2p'[a].connection # "none"
               /\ p2p'[a].dataChannel # "none"
       /\ (p2p'[a].pc = "local" /\ p2p[a].pc # "local") => p2p[a].pc = "offer"
       /\ (p2p'[a].pc = "sdp" /\ p2p[a].pc # "sdp") => p2p[a].pc = "local"
       /\ (p2p'[a].pc = "answer" /\ p2p[a].pc # "answer") => p2p[a].pc = "sdp"
       /\ (p2p'[a].pc = "returned" /\ p2p[a].pc # "returned") => p2p[a].pc = "answer"
       /\ (refs'.sessionRef = [kind |-> "handle", of |-> a]) => p2p'[a].pc = "returned"]_vars

\* the open has run to its end
C33_Witness ==
  \E a \in Attempts :
    /\ p2p[a].pc = "returned"
    /\ refs.sessionRef = [kind |-> "handle", of |-> a]
    /\ p2p[a].track = "live"
    /\ p2p[a].connection = "new"
    /\ p2p[a].dataChannel = "connecting"

(***************************************************************************)
(* C34: in every encoded frame each stored value is the 16-bit signed      *)
(* integer congruent modulo 2^16 to the product of the sample with 32768   *)
(* truncated towards zero, whether or not the product is in range, and     *)
(* the frame is labelled audio/pcm;rate=16000.                             *)
(***************************************************************************)
\* the product n / 2 of a sample with 32768, truncated towards zero
truncatedProduct(n) == IF n >= 0 THEN n \div 2 ELSE -(abs(n) \div 2)

C34_EncodingWraps ==
  \A a \in Attempts : \A k \in DOMAIN gem[a].sent :
    LET frame == gem[a].sent[k]
        stored == bytesInt16(decode(frame.media.data))
    IN /\ frame.media.mimeType = "audio/pcm;rate=16000"
       /\ Len(stored) = Len(frame.samples)
       /\ \A i \in DOMAIN frame.samples :
            /\ stored[i] \in (-Int16Scale)..(Int16Scale - 1)
            /\ (stored[i] - truncatedProduct(frame.samples[i])) % (2 * Int16Scale) = 0

\* the sample 1.5 stored as -16384 and the sample 1.0 stored as -32768
C34_Witness ==
  \E a \in Attempts : \E k, j \in DOMAIN gem[a].sent :
    /\ gem[a].sent[k].samples = <<3 * Int16Scale>>
    /\ bytesInt16(decode(gem[a].sent[k].media.data)) = <<-16384>>
    /\ gem[a].sent[j].samples = <<2 * Int16Scale, 0>>
    /\ bytesInt16(decode(gem[a].sent[j].media.data)) = <<-32768, 0>>

(***************************************************************************)
(* C35: a local-party completed event is appended when it arrives, also    *)
(* between the deltas of a remote turn and its turn-done, and leaves the   *)
(* buffered deltas as they were: the remote line that follows carries all  *)
(* deltas of its turn and stands after the local-party line.               *)
(***************************************************************************)
lastMessage(wire) == wire[Len(wire)]

C35_CompletionOrder ==
  [][\A a \in Attempts :
       (a = cur /\ Len(obs.wire') = Len(obs.wire) + 1)
       => /\ isUserTurn(lastMessage(obs.wire'))
               => /\ refs'.azureAiBufferRef = refs.azureAiBufferRef
                  /\ refs'.transcriptRef =
                       IF trim(readEventText(lastMessage(obs.wire'))) = ""
                       THEN refs.transcriptRef
                       ELSE Append(refs.transcriptRef,
                                   "Interviewee: "
                                     \o trim(readEventText(lastMessage(obs.wire'))))
          /\ isDone(lastMessage(obs.wire'))
               => /\ refs'.azureAiBufferRef = ""
                  /\ refs'.transcriptRef =
                       IF trim(turnText(obs.wire, Len(obs.wire))) = "" THEN refs.transcriptRef
                       ELSE Append(refs.transcriptRef,
                                   "AI: " \o trim(turnText(obs.wire, Len(obs.wire))))]_vars

\* a local-party line that arrived between two deltas of a remote turn
C35_Witness ==
  /\ obs.wire = <<DeltaMsg("Hel"), UserTurnMsg(" I saw blue "), DeltaMsg("Hel"), DoneMsg>>
  /\ refs.transcriptRef = <<"Interviewee: I saw blue", "AI: HelHel">>
  /\ refs.azureAiBufferRef = ""

(***************************************************************************)
(* C36: the attempt started by a change of settings begins from the        *)
(* initial session state: empty transcript, empty delta buffer, zero       *)
(* elapsed seconds, status CONNECTING, and a playback watermark not ahead  *)
(* of the clock of the new output context; and what End Session hands      *)
(* over afterwards holds no line of an earlier attempt.                    *)
(***************************************************************************)
C36_RestartFromInitialState ==
  [][(cur > 0 /\ cur' # cur)
       => /\ refs'.transcriptRef = <<>>
          /\ refs'.azureAiBufferRef = ""
          /\ duration' = 0
          /\ refs'.durationRef = 0
          /\ status' = "connecting"
          /\ \A a \in Attempts : a = cur' => refs'.nextStartTimeRef <= gem'[a].currentTime]_vars

(***************************************************************************)
(* C37: onComplete is invoked at most once for a session, also when End    *)
(* Session is pressed again while the component is still mounted.          *)
(***************************************************************************)
C37_CompletesAtMostOnce ==
  Len(obs.completions) <= 1

(***************************************************************************)
(* C38: on the streaming path no microphone buffer is captured, encoded or *)
(* handed to the session while the socket has not opened: the capture      *)
(* handler exists only after onopen, and a frame reaches the transport     *)
(* only after the session promise has resolved.                            *)
(***************************************************************************)
C38_NoFrameBeforeOpen ==
  \A a \in Attempts :
    /\ (gem[a].captured > 0 \/ handedFrames(a) # <<>>)
         => gem[a].socket \in {"open", "closing", "closed", "failed"}
    /\ gem[a].sent # <<>> => gem[a].promise = "resolved"
    /\ gem[a].socket \in {"none", "connecting"} => ~gem[a].capturing

\* the first buffer captured after onopen, transmitted on the open socket
C38_Witness ==
  \E a \in Attempts :
    /\ gem[a].socket = "open"
    /\ gem[a].captured = 1
    /\ Len(gem[a].sent) = 1
    /\ gem[a].sent[1].onOpenSocket

(***************************************************************************)
(* C39: whenever the session slot of the diagnostics is 'live', the        *)
(* connection status is CONNECTED and the credential, microphone and       *)
(* network slots are all 'ok'; this also holds after a callback of an      *)
(* earlier attempt has run late.                                           *)
(***************************************************************************)
C39_LiveMeansConnected ==
  diagnostics.session = "live"
    => /\ status = "connected"
       /\ diagnostics.key = "ok"
       /\ diagnostics.mic = "ok"
       /\ diagnostics.network = "ok"

(***************************************************************************)
(* C40: the peer-to-peer adapter never has more than one grace timer       *)
(* pending, and the variable holding the timer tells whether one is; once  *)
(* the adapter is closed no grace timer is pending, none runs, and no      *)
(* 'disconnected' error is delivered any more.                             *)
(***************************************************************************)
C40_OneGraceTimer ==
  [][\A a \in Attempts :
       /\ p2p'[a].graceTimers <= 1
       /\ p2p'[a].disconnectTimer <=> p2p'[a].graceTimers = 1
       /\ p2p'[a].isClosed => p2p'[a].graceTimers = 0
       /\ p2p[a].isClosed
          => /\ p2p'[a].graceFired = p2p[a].graceFired
             /\ p2p'[a].onErrorCalls # p2p[a].onErrorCalls
                  => p2p'[a].lastError # "Realtime peer connection disconnected."]_vars

\* a first timer ran out while the connection was checking again; the connection fell
\* back to disconnected, a second timer was armed, and the failure that closed the
\* adapter cleared it
C40_Witness ==
  \E a \in Attempts :
    /\ p2p[a].isClosed
    /\ p2p[a].graceFired
    /\ p2p[a].failedFrom = "disconnected"
    /\ p2p[a].onErrorCalls = 1
    /\ p2p[a].graceTimers = 0
    /\ ~p2p[a].disconnectTimer

====
